---- MODULE Spec2Model ----
(***************************************************************************)
(* FlipFinder Pro: the lead valuation and prioritisation engine of         *)
(* src/flipfinder_pro.py (calculate_ai_priority_score, predict_arv,        *)
(* analyze_neighborhood).                                                  *)
(*                                                                         *)
(* Representation.                                                         *)
(*  - A property dict is a function whose domain is the set of keys that   *)
(*    are present; dict.get(k, d) is Get(p, k, d).                         *)
(*  - Python floats are modelled by exact rational arithmetic.  Money that *)
(*    the code holds as a float (max_offer, total_investment, net_profit)  *)
(*    is kept in hundredths of a dollar (so arv * 0.7 is 70 * arv and      *)
(*    arv * 0.13 is 13 * arv); percentages (gap_percent, roi) are kept as  *)
(*    fractions [num, den] with den > 0, and "x >= k" is num >= k * den.   *)
(*  - The value of the key 'distress_signals', whose type the code tests   *)
(*    with isinstance, carries its type: PyList(<<tag, ...>>) is a list of *)
(*    strings, PyStr(<<c, ...>>) a str given as the sequence of its        *)
(*    characters (so that ','.join and split(',') work on characters).     *)
(*  - datetime.now() is the variable now, an input of every call.          *)
(*  - The emoji that prefix some factor names and insights are left out of *)
(*    the strings.                                                         *)
(*  - An exception raised by a call is the result [error |-> <name>].      *)
(*  - int(x) of a float x is the exact value with its fraction dropped;    *)
(*    where the exact value is a whole number the float may have fallen    *)
(*    just short of it, and int(x) is then one unit nearer zero.  Whether  *)
(*    it did is an input of the call (see IntOfFloat).                     *)
(*  - The SQLite file is the variable db: the properties table is a        *)
(*    function from id (its primary key) to row, the notes, followups and  *)
(*    alerts tables are sequences of rows in insertion order.  A row read  *)
(*    back is the dict of its columns.  Columns that neither the engine    *)
(*    nor a handler modelled here reads (state, zip, lot_size,             *)
(*    property_type, estimated_value, mortgage_balance, equity,            *)
(*    owner_name, lat, lng, the timestamps and the columns save_property   *)
(*    never writes) are left out, as are the AUTOINCREMENT ids.            *)
(*  - A run of the Streamlit script is one step: main's prologue, then     *)
(*    the handler of the button that was clicked, if any.                  *)
(***************************************************************************)
EXTENDS Integers, Sequences, FiniteSets, TLC

VARIABLES property_data,   \* the property dict passed to the engine
          city,            \* the city key passed to predict_arv / analyze_neighborhood
          now,             \* datetime.now(): [year, month]
          op,              \* the entry point that produced result ("none" before a call)
          result,          \* what the last call returned (or the error it raised)
          prev,            \* what the call before the last one returned (NoResult if none)
          cities,          \* the module global MICHIGAN_CITIES as the process holds it
          deal,            \* the four number inputs of the Quick Deal Analyzer
          db,              \* the tables of flipfinder.db
          session_state    \* st.session_state of the browser session

vars == <<property_data, city, now, op, result, prev, cities, deal, db, session_state>>

(***************************************************************************)
(* Python helpers                                                          *)
(***************************************************************************)
\* dict.get(k, default)
Get(d, k, default) == IF k \in DOMAIN d THEN d[k] ELSE default

\* the dict with the single key k
Field(k, v) == [x \in {k} |-> v]

\* the empty dict
EmptyDict == [x \in {} |-> 0]

\* the rational n/d (d > 0) that stands for a Python float
Frac(n, d) == [num |-> n, den |-> d]

\* the float 0 (also the int 0 the guards of lines 508 and 513 yield)
FracZero == Frac(0, 1)

\* q >= k for a fraction q and an integer k
FracGe(q, k) == q.num >= k * q.den

\* x in lst
In(x, lst) == \E i \in DOMAIN lst : lst[i] = x

\* int(list_price * 1.2) for list_price >= 0: truncation of 6/5 * list_price
IntTimes1_2(list_price) == (list_price * 6) \div 5

RECURSIVE SumAdd(_)
\* the sum of the "score += n" increments of a sequence of fired rules
SumAdd(steps) ==
    IF steps = <<>> THEN 0 ELSE Head(steps).add + SumAdd(Tail(steps))

RECURSIVE AllFactors(_)
\* the factors.append calls of a sequence of rules, in order
AllFactors(steps) ==
    IF steps = <<>> THEN <<>> ELSE Head(steps).factors \o AllFactors(Tail(steps))

RECURSIVE AllInsights(_)
\* the ai_insights.append calls of a sequence of rules, in order
AllInsights(steps) ==
    IF steps = <<>> THEN <<>> ELSE Head(steps).ai_insights \o AllInsights(Tail(steps))

RECURSIVE CountTruthy(_)
\* len([s for s in distress_signals if s])
CountTruthy(lst) ==
    IF lst = <<>> THEN 0
    ELSE (IF Head(lst) # "" THEN 1 ELSE 0) + CountTruthy(Tail(lst))

\* a Python list of strings
PyList(items) == [list |-> items]

\* a Python str, as the sequence of its characters
PyStr(chars) == [str |-> chars]

\* the characters of the string literals of DISTRESS_SIGNALS (lines 93-97)
Chars(s) ==
    CASE s = "Pre-Foreclosure" ->
             <<"P", "r", "e", "-", "F", "o", "r", "e", "c", "l", "o", "s", "u", "r", "e">>
      [] s = "Foreclosure" ->
             <<"F", "o", "r", "e", "c", "l", "o", "s", "u", "r", "e">>
      [] s = "Auction" ->
             <<"A", "u", "c", "t", "i", "o", "n">>
      [] s = "Tax Lien" ->
             <<"T", "a", "x", " ", "L", "i", "e", "n">>
      [] s = "Vacant" ->
             <<"V", "a", "c", "a", "n", "t">>
      [] s = "Absentee Owner" ->
             <<"A", "b", "s", "e", "n", "t", "e", "e", " ", "O", "w", "n", "e", "r">>
      [] s = "Probate/Estate" ->
             <<"P", "r", "o", "b", "a", "t", "e", "/", "E", "s", "t", "a", "t", "e">>
      [] s = "High Equity" ->
             <<"H", "i", "g", "h", " ", "E", "q", "u", "i", "t", "y">>
      [] s = "Divorce" ->
             <<"D", "i", "v", "o", "r", "c", "e">>
      [] s = "Code Violations" ->
             <<"C", "o", "d", "e", " ", "V", "i", "o", "l", "a", "t", "i", "o", "n", "s">>
      [] s = "Tired Landlord" ->
             <<"T", "i", "r", "e", "d", " ", "L", "a", "n", "d", "l", "o", "r", "d">>
      [] s = "" -> <<>>

RECURSIVE Join(_, _)
\* sep.join(items), as a sequence of characters
Join(items, sep) ==
    IF items = <<>> THEN <<>>
    ELSE IF Len(items) = 1 THEN Chars(Head(items))
    ELSE Chars(Head(items)) \o <<sep>> \o Join(Tail(items), sep)

RECURSIVE StrOf(_)
\* the str made of the characters chars
StrOf(chars) ==
    IF chars = <<>> THEN "" ELSE Head(chars) \o StrOf(Tail(chars))

RECURSIVE Split(_, _)
\* chars.split(sep) for a one-character sep: the list of the strings between the
\* separators (one more string than there are separators)
Split(chars, sep) ==
    LET at == {i \in 1..Len(chars) : chars[i] = sep}
    IN  IF at = {} THEN <<StrOf(chars)>>
        ELSE LET first == CHOOSE i \in at : \A j \in at : i <= j
             IN  <<StrOf(SubSeq(chars, 1, first - 1))>>
                 \o Split(SubSeq(chars, first + 1, Len(chars)), sep)

\* SerializedSignals with ';' between the tags
SerializedSignalsSemicolon(v) ==
    IF "list" \in DOMAIN v THEN PyStr(Join(v.list, ";")) ELSE v

\* lines 823-825 of save_property: a list is stored as its tags joined with ','
SerializedSignals(v) ==
    IF "list" \in DOMAIN v THEN PyStr(Join(v.list, ",")) ELSE v

\* lines 483-484: a str is split at ',' (the empty str is no signals), a list is kept
SignalList(v) ==
    IF "str" \in DOMAIN v
    THEN (IF v.str # <<>> THEN Split(v.str, ",") ELSE <<>>)
    ELSE v.list

(***************************************************************************)
(* calculate_ai_priority_score: the scoring rules, in the order of the     *)
(* code.  A rule that fires adds `add` to score, appends one factor and    *)
(* possibly insights; a rule that does not fire is NoRule.                 *)
(***************************************************************************)
\* Rule with the factors.append forgotten: the points reach the score unrecorded
RuleWithoutFactor(add, name, points, category, insights) ==
    [add |-> add, factors |-> <<>>, ai_insights |-> insights]

Rule(add, name, points, category, insights) ==
    [add |-> add,
     factors |-> <<[name |-> name, points |-> points, category |-> category]>>,
     ai_insights |-> insights]

NoRule == [add |-> 0, factors |-> <<>>, ai_insights |-> <<>>]

\* lines 487-488
Age(year_built, clock) ==
    IF year_built > 1800 THEN clock.year - year_built ELSE 50

\* RepairBracket with the first limit inclusive: an age of exactly 50 is an older home
RepairBracketInclusive(age) ==
    IF age >= 50 THEN
        [repair_per_sqft |-> 65,
         insight |-> "Older home - budget for major systems (roof, HVAC, plumbing)"]
    ELSE IF age > 30 THEN
        [repair_per_sqft |-> 45,
         insight |-> "Medium-age home - likely needs kitchen/bath updates"]
    ELSE IF age > 15 THEN
        [repair_per_sqft |-> 30,
         insight |-> "Newer construction - mostly cosmetic updates"]
    ELSE
        [repair_per_sqft |-> 20,
         insight |-> "Very new - minimal repairs expected"]

\* lines 490-501: the repair bracket and its insight
RepairBracket(age) ==
    IF age > 50 THEN
        [repair_per_sqft |-> 65,
         insight |-> "Older home - budget for major systems (roof, HVAC, plumbing)"]
    ELSE IF age > 30 THEN
        [repair_per_sqft |-> 45,
         insight |-> "Medium-age home - likely needs kitchen/bath updates"]
    ELSE IF age > 15 THEN
        [repair_per_sqft |-> 30,
         insight |-> "Newer construction - mostly cosmetic updates"]
    ELSE
        [repair_per_sqft |-> 20,
         insight |-> "Very new - minimal repairs expected"]

\* ArvUsed with the 1.2 markup forgotten: a missing ARV falls back to the list price
ArvUsedNoMarkup(p, list_price) ==
    IF Get(p, "arv", 0) # 0 THEN Get(p, "arv", 0) ELSE list_price

\* line 472: arv = property_data.get('arv', 0) or int(list_price * 1.2)
ArvUsed(p, list_price) ==
    IF Get(p, "arv", 0) # 0 THEN Get(p, "arv", 0) ELSE IntTimes1_2(list_price)

\* Financials with the gap taken the wrong way round (list price minus max offer)
FinancialsGapReversed(list_price, arv, estimated_repairs) ==
    LET max_offer == 70 * arv - 100 * estimated_repairs
        gap == 100 * list_price - max_offer
        gap_percent == IF arv > 0 THEN Frac(gap, arv) ELSE FracZero
        total_investment == 100 * list_price + 100 * estimated_repairs + 13 * arv
        net_profit == 100 * arv - total_investment
        roi == IF total_investment > 0
               THEN Frac(100 * net_profit, total_investment) ELSE FracZero
    IN  [max_offer |-> max_offer,
         estimated_repairs |-> estimated_repairs,
         gap_percent |-> gap_percent,
         roi |-> roi,
         net_profit |-> net_profit,
         total_investment |-> total_investment]

\* Financials without the two zero-denominator guards: the divisions are always made
FinancialsUnguarded(list_price, arv, estimated_repairs) ==
    LET max_offer == 70 * arv - 100 * estimated_repairs
        gap == max_offer - 100 * list_price
        total_investment == 100 * list_price + 100 * estimated_repairs + 13 * arv
        net_profit == 100 * arv - total_investment
    IN  [max_offer |-> max_offer,
         estimated_repairs |-> estimated_repairs,
         gap_percent |-> Frac(gap, arv),
         roi |-> Frac(100 * net_profit, total_investment),
         net_profit |-> net_profit,
         total_investment |-> total_investment]

\* lines 505-513: the 70 % rule and the ROI (money in hundredths of a dollar)
Financials(list_price, arv, estimated_repairs) ==
    LET max_offer == 70 * arv - 100 * estimated_repairs
        gap == max_offer - 100 * list_price
        gap_percent == IF arv > 0 THEN Frac(gap, arv) ELSE FracZero
        total_investment == 100 * list_price + 100 * estimated_repairs + 13 * arv
        net_profit == 100 * arv - total_investment
        roi == IF total_investment > 0
               THEN Frac(100 * net_profit, total_investment) ELSE FracZero
    IN  [max_offer |-> max_offer,
         estimated_repairs |-> estimated_repairs,
         gap_percent |-> gap_percent,
         roi |-> roi,
         net_profit |-> net_profit,
         total_investment |-> total_investment]

\* lines 516-533
GapRule(gap_percent) ==
    IF FracGe(gap_percent, 15) THEN
        Rule(25, "Excellent Price Gap (15%+)", 25, "profit",
             <<"SLAM DUNK - Priced significantly below max offer!">>)
    ELSE IF FracGe(gap_percent, 10) THEN
        Rule(20, "Great Price Gap (10%+)", 20, "profit",
             <<"Strong profit margin available">>)
    ELSE IF FracGe(gap_percent, 5) THEN
        Rule(15, "Good Price Gap (5%+)", 15, "profit", <<>>)
    ELSE IF FracGe(gap_percent, 0) THEN
        Rule(10, "At Max Offer", 10, "profit", <<>>)
    ELSE IF FracGe(gap_percent, -10) THEN
        Rule(5, "Negotiable", 5, "profit",
             <<"Needs 10%+ discount to make numbers work">>)
    ELSE NoRule

\* RoiRule as independent ifs at 30 and 20: an ROI of 30 % earns both factors
RoiRuleIndependent(roi) ==
    IF FracGe(roi, 30) THEN
        [add |-> 27,
         factors |-> <<[name |-> "Excellent ROI (30%+)", points |-> 15,
                        category |-> "profit"],
                       [name |-> "Strong ROI (20%+)", points |-> 12,
                        category |-> "profit"]>>,
         ai_insights |-> <<>>]
    ELSE IF FracGe(roi, 20) THEN Rule(12, "Strong ROI (20%+)", 12, "profit", <<>>)
    ELSE IF FracGe(roi, 15) THEN Rule(8, "Good ROI (15%+)", 8, "profit", <<>>)
    ELSE IF FracGe(roi, 10) THEN Rule(5, "Acceptable ROI (10%+)", 5, "profit", <<>>)
    ELSE NoRule

\* lines 535-546
RoiRule(roi) ==
    IF FracGe(roi, 30) THEN Rule(15, "Excellent ROI (30%+)", 15, "profit", <<>>)
    ELSE IF FracGe(roi, 20) THEN Rule(12, "Strong ROI (20%+)", 12, "profit", <<>>)
    ELSE IF FracGe(roi, 15) THEN Rule(8, "Good ROI (15%+)", 8, "profit", <<>>)
    ELSE IF FracGe(roi, 10) THEN Rule(5, "Acceptable ROI (10%+)", 5, "profit", <<>>)
    ELSE NoRule

\* lines 549-591: one "if '<tag>' in distress_signals" block per row, in this order
TagTable ==
    << [tag |-> "Foreclosure", add |-> 15, name |-> "Active Foreclosure", points |-> 15,
        insights |-> <<"URGENT - Facing sale deadline!">>],
       [tag |-> "Pre-Foreclosure", add |-> 12, name |-> "Pre-Foreclosure", points |-> 12,
        insights |-> <<"Owner in financial distress - needs solution fast">>],
       [tag |-> "Probate/Estate", add |-> 12, name |-> "Inherited/Estate", points |-> 12,
        insights |-> <<"Emotional sale - heirs often want quick resolution">>],
       [tag |-> "Tax Lien", add |-> 10, name |-> "Tax Lien", points |-> 10,
        insights |-> <<>>],
       [tag |-> "Divorce", add |-> 10, name |-> "Divorce", points |-> 10,
        insights |-> <<"Divorce situation - both parties often motivated to sell">>],
       [tag |-> "Absentee Owner", add |-> 6, name |-> "Absentee Owner", points |-> 6,
        insights |-> <<"Out-of-area owner - management burden">>],
       [tag |-> "Vacant", add |-> 8, name |-> "Vacant Property", points |-> 8,
        insights |-> <<"Vacant = carrying costs + liability for owner">>],
       [tag |-> "Tired Landlord", add |-> 8, name |-> "Tired Landlord", points |-> 8,
        insights |-> <<"Burnt out on property management">>],
       [tag |-> "Code Violations", add |-> 7, name |-> "Code Violations", points |-> 7,
        insights |-> <<"City pressure to fix or sell">>] >>

\* TagRule as one if/elif chain: a block is skipped when an earlier tag was found
TagRuleElif(i, distress_signals) ==
    IF /\ In(TagTable[i].tag, distress_signals)
       /\ \A j \in 1..(i - 1) : ~In(TagTable[j].tag, distress_signals)
    THEN Rule(TagTable[i].add, TagTable[i].name, TagTable[i].points, "motivation",
              TagTable[i].insights)
    ELSE NoRule

\* the i-th block of lines 549-591
TagRule(i, distress_signals) ==
    IF In(TagTable[i].tag, distress_signals)
    THEN Rule(TagTable[i].add, TagTable[i].name, TagTable[i].points, "motivation",
              TagTable[i].insights)
    ELSE NoRule

\* lines 593-595
OwnershipRule(ownership_years) ==
    IF ownership_years >= 15
    THEN Rule(5, "Long Ownership (15+ yrs)", 5, "motivation", <<>>)
    ELSE NoRule

\* lines 597-603
EquityRule(equity_percent) ==
    IF equity_percent >= 70 THEN
        Rule(6, "High Equity (70%+)", 6, "motivation",
             <<"High equity = more negotiation flexibility">>)
    ELSE IF equity_percent >= 50 THEN
        Rule(4, "Good Equity (50%+)", 4, "motivation", <<>>)
    ELSE NoRule

\* FreeClearRule as an elif of the equity chain: never together with High Equity
FreeClearRuleElif(equity_percent) == NoRule

\* lines 605-608
FreeClearRule(equity_percent) ==
    IF equity_percent >= 95
    THEN Rule(5, "Free & Clear", 5, "motivation",
              <<"No lender approval needed - faster closing!">>)
    ELSE NoRule

\* SignalCountRule as two independent ifs: five signals earn both bonuses
SignalCountRuleBoth(distress_signals) ==
    LET signal_count == CountTruthy(distress_signals)
    IN  IF signal_count >= 5 THEN
            [add |-> 13,
             factors |-> <<[name |-> "5+ Distress Signals", points |-> 8,
                            category |-> "motivation"],
                           [name |-> "Multiple Signals", points |-> 5,
                            category |-> "motivation"]>>,
             ai_insights |-> <<"MULTIPLE MOTIVATION SIGNALS - High priority!">>]
        ELSE IF signal_count >= 3 THEN
            Rule(5, "Multiple Signals", 5, "motivation", <<>>)
        ELSE NoRule

\* SignalCountRule counting only the distinct tags of the points table
SignalCountRuleRecognised(distress_signals) ==
    LET signal_count ==
            Cardinality({i \in 1..Len(TagTable) : In(TagTable[i].tag, distress_signals)})
    IN  IF signal_count >= 5 THEN
            Rule(8, "5+ Distress Signals", 8, "motivation",
                 <<"MULTIPLE MOTIVATION SIGNALS - High priority!">>)
        ELSE IF signal_count >= 3 THEN
            Rule(5, "Multiple Signals", 5, "motivation", <<>>)
        ELSE NoRule

\* lines 610-617
SignalCountRule(distress_signals) ==
    LET signal_count == CountTruthy(distress_signals)
    IN  IF signal_count >= 5 THEN
            Rule(8, "5+ Distress Signals", 8, "motivation",
                 <<"MULTIPLE MOTIVATION SIGNALS - High priority!">>)
        ELSE IF signal_count >= 3 THEN
            Rule(5, "Multiple Signals", 5, "motivation", <<>>)
        ELSE NoRule

\* lines 620-626
DaysOnMarketRule(days_on_market) ==
    IF days_on_market >= 90 THEN
        Rule(8, "Stale Listing (90+ days)", 8, "urgency",
             <<"On market 90+ days - seller getting anxious">>)
    ELSE IF days_on_market >= 60 THEN
        Rule(5, "Getting Stale (60+ days)", 5, "urgency", <<>>)
    ELSE NoRule

\* lines 628-634
PriceReductionRule(price_reductions) ==
    IF price_reductions >= 2 THEN
        Rule(8, "Multiple Price Drops", 8, "urgency",
             <<"Multiple price reductions = motivated seller">>)
    ELSE IF price_reductions >= 1 THEN
        Rule(5, "Price Reduced", 5, "urgency", <<>>)
    ELSE NoRule

\* lines 637-641
WinterRule(clock) ==
    IF clock.month \in {11, 12, 1, 2}
    THEN Rule(3, "Winter Season", 3, "urgency",
              <<"Winter in Michigan = motivated sellers">>)
    ELSE NoRule

\* ContactRule that fires whether or not the key holds a value
ContactRuleAlways(p, key, add, name, points) ==
    Rule(add, name, points, "contact", <<>>)

\* lines 644-654: if property_data.get(key): a present, non-empty string
ContactRule(p, key, add, name, points) ==
    IF Get(p, key, "") # "" THEN Rule(add, name, points, "contact", <<>>) ELSE NoRule

\* Clamp with the cap forgotten
ClampMissing(score) == score

\* line 657
Clamp(score) == IF score < 100 THEN score ELSE 100

\* Tier with a strict comparison at the HOT threshold
TierHotAbove75(score) ==
    IF score > 75 THEN "HOT"
    ELSE IF score >= 55 THEN "WARM"
    ELSE IF score >= 35 THEN "NURTURE"
    ELSE "MONITOR"

\* lines 659-670
Tier(score) ==
    IF score >= 75 THEN "HOT"
    ELSE IF score >= 55 THEN "WARM"
    ELSE IF score >= 35 THEN "NURTURE"
    ELSE "MONITOR"

\* lines 659-670
TierAction(score) ==
    IF score >= 75 THEN "CALL TODAY - Drop everything!"
    ELSE IF score >= 55 THEN "Contact within 48 hours"
    ELSE IF score >= 35 THEN "Add to drip campaign"
    ELSE "Watch for price drops"

\* Recommendation read off the tier alone: every HOT record is a strong buy
RecommendationByTier(score, roi) ==
    IF score >= 75 THEN "STRONG BUY - All signals align for profit"
    ELSE IF score >= 55 THEN "GOOD OPPORTUNITY - Worth pursuing"
    ELSE IF score >= 35 THEN "NEEDS WORK - Negotiate hard or wait for price drop"
    ELSE "PASS - Numbers don't work at current price"

\* lines 673-680
Recommendation(score, roi) ==
    IF score >= 75 /\ FracGe(roi, 20) THEN "STRONG BUY - All signals align for profit"
    ELSE IF score >= 55 /\ FracGe(roi, 15) THEN "GOOD OPPORTUNITY - Worth pursuing"
    ELSE IF score >= 35 THEN "NEEDS WORK - Negotiate hard or wait for price drop"
    ELSE "PASS - Numbers don't work at current price"

\* lines 515-654: every rule of the four buckets, in the order the code runs them
ScoringRules(p, clock, fin, distress_signals) ==
    << GapRule(fin.gap_percent), RoiRule(fin.roi) >>
    \o [i \in 1..Len(TagTable) |-> TagRule(i, distress_signals)]
    \o << OwnershipRule(Get(p, "ownership_years", 5)),
          EquityRule(Get(p, "equity_percent", 0)),
          FreeClearRule(Get(p, "equity_percent", 0)),
          SignalCountRule(distress_signals),
          DaysOnMarketRule(Get(p, "days_on_market", 0)),
          PriceReductionRule(Get(p, "price_reductions", 0)),
          WinterRule(clock),
          ContactRule(p, "owner_phone", 5, "Phone Available", 5),
          ContactRule(p, "owner_email", 3, "Email Available", 3),
          ContactRule(p, "owner_mailing", 2, "Mailing Address", 2) >>

\* the record after a call that stores the split signal list back into it
RecordAfterScoreNormalised(p) ==
    IF "distress_signals" \in DOMAIN p
    THEN [p EXCEPT !.distress_signals = PyList(SignalList(@))]
    ELSE p

\* lines 464-697: the caller's record after the call.  Every value read from it is
\* bound to a local name (lines 471-481), the split of line 484 re-binds the local
\* distress_signals, and no statement assigns to property_data or to a value in it.
RecordAfterScore(p) == p

\* lines 464-697
calculate_ai_priority_score(p, clock) ==
    LET list_price == Get(p, "list_price", 0)
        arv == ArvUsed(p, list_price)
        sqft == Get(p, "sqft", 1500)
        year_built == Get(p, "year_built", 1970)
        distress_signals == SignalList(Get(p, "distress_signals", PyList(<<>>)))
        bracket == RepairBracket(Age(year_built, clock))
        estimated_repairs == sqft * bracket.repair_per_sqft
        fin == Financials(list_price, arv, estimated_repairs)
        steps == ScoringRules(p, clock, fin, distress_signals)
        score == Clamp(SumAdd(steps))
    IN  [score |-> score,
         tier |-> Tier(score),
         action |-> TierAction(score),
         factors |-> AllFactors(steps),
         ai_insights |-> <<bracket.insight>> \o AllInsights(steps),
         ai_recommendation |-> Recommendation(score, fin.roi),
         financials |-> fin]

(***************************************************************************)
(* predict_arv and analyze_neighborhood.                                   *)
(*  - appreciation and job_growth are kept in tenths of a percent,         *)
(*    age_multiplier in hundredths, market_factor in thousandths, and the  *)
(*    'baths' value in half baths (3 stands for 1.5).                      *)
(*  - The lat/lng of a city are not read by the engine and are left out.   *)
(*  - random.* is a nondeterministic input of the call.                    *)
(***************************************************************************)
\* lines 68-89 (median_price, appreciation in tenths of a percent): the table as loaded
MICHIGAN_CITIES ==
    [c \in {"Detroit", "Grand Rapids", "Warren", "Sterling Heights", "Ann Arbor",
            "Lansing", "Flint", "Dearborn", "Livonia", "Troy", "Westland",
            "Farmington Hills", "Kalamazoo", "Wyoming", "Southfield", "Pontiac",
            "Taylor", "Royal Oak", "Novi", "Saginaw"} |->
        CASE c = "Detroit" -> [median_price |-> 85000, appreciation |-> 85]
          [] c = "Grand Rapids" -> [median_price |-> 285000, appreciation |-> 123]
          [] c = "Warren" -> [median_price |-> 165000, appreciation |-> 92]
          [] c = "Sterling Heights" -> [median_price |-> 235000, appreciation |-> 78]
          [] c = "Ann Arbor" -> [median_price |-> 425000, appreciation |-> 65]
          [] c = "Lansing" -> [median_price |-> 145000, appreciation |-> 112]
          [] c = "Flint" -> [median_price |-> 55000, appreciation |-> 158]
          [] c = "Dearborn" -> [median_price |-> 175000, appreciation |-> 89]
          [] c = "Livonia" -> [median_price |-> 265000, appreciation |-> 72]
          [] c = "Troy" -> [median_price |-> 385000, appreciation |-> 58]
          [] c = "Westland" -> [median_price |-> 155000, appreciation |-> 105]
          [] c = "Farmington Hills" -> [median_price |-> 325000, appreciation |-> 69]
          [] c = "Kalamazoo" -> [median_price |-> 175000, appreciation |-> 98]
          [] c = "Wyoming" -> [median_price |-> 245000, appreciation |-> 115]
          [] c = "Southfield" -> [median_price |-> 125000, appreciation |-> 128]
          [] c = "Pontiac" -> [median_price |-> 95000, appreciation |-> 142]
          [] c = "Taylor" -> [median_price |-> 125000, appreciation |-> 95]
          [] c = "Royal Oak" -> [median_price |-> 315000, appreciation |-> 75]
          [] c = "Novi" -> [median_price |-> 445000, appreciation |-> 52]
          [] c = "Saginaw" -> [median_price |-> 45000, appreciation |-> 185]]

\* lines 701 and 763: MICHIGAN_CITIES.get(city, {'median_price': 150000, 'appreciation': 8.0})
CityData(c) ==
    IF c \in DOMAIN cities THEN cities[c]
    ELSE [median_price |-> 150000, appreciation |-> 80]

RECURSIVE MulQR(_, _, _)
\* quotient and remainder of a * b by c (a, b >= 0, c > 0) without forming a * b
MulQR(a, b, c) ==
    IF b = 0 THEN [q |-> 0, r |-> 0]
    ELSE LET h == MulQR(a, b \div 2, c)
             d == 2 * h.r + (IF b % 2 = 1 THEN a % c ELSE 0)
         IN  [q |-> 2 * h.q + (IF b % 2 = 1 THEN a \div c ELSE 0) + d \div c,
              r |-> d % c]

\* int(a * b / c): the quotient truncated toward zero (b >= 0, c > 0)
IntMulDiv(a, b, c) == IF a >= 0 THEN MulQR(a, b, c).q ELSE -MulQR(-a, b, c).q

\* AgeMultiplier with strict comparisons at the three age limits
AgeMultiplierStrict(age) ==
    IF age < 10 THEN 115
    ELSE IF age < 25 THEN 105
    ELSE IF age < 50 THEN 100
    ELSE 92

\* lines 723-730 (in hundredths)
AgeMultiplier(age) ==
    IF age <= 10 THEN 115
    ELSE IF age <= 25 THEN 105
    ELSE IF age <= 50 THEN 100
    ELSE 92

\* int(x) of a float x (lines 742-750, 773): q is the exact value of x with its
\* fraction dropped, whole says that the exact value has no fraction, short that
\* the float fell short of it
IntOfFloat(q, whole, short) ==
    IF whole /\ short /\ q # 0 THEN (IF q > 0 THEN q - 1 ELSE q + 1) ELSE q

\* lines 699-759; confidence is the value random.randint(75, 95) returns and short
\* says, for each int() of the return statement, whether its float fell short.
\* predicted_arv = s3 * m / 300000 with s3 = 3 * (base_arv + bed_adjustment +
\* bath_adjustment) and m = age_multiplier * market_factor.
predict_arv(p, c, clock, confidence, short) ==
    LET city_data == CityData(c)
        sqft == Get(p, "sqft", 1500)
        beds == Get(p, "beds", 3)
        baths == Get(p, "baths", 4)
        year_built == Get(p, "year_built", 1970)
        base3 == sqft * (city_data.median_price \div 500)
        bed_adjustment == (beds - 3) * 10000
        bath_adjustment == (IF baths - 3 > 0 THEN baths - 3 ELSE 0) * 3750
        age_multiplier == AgeMultiplier(clock.year - year_built)
        appreciation_factor == 1000 + city_data.appreciation
        s3 == base3 + 3 * (bed_adjustment + bath_adjustment)
        m == age_multiplier * appreciation_factor
        sign == IF s3 >= 0 THEN 1 ELSE -1
        predicted == MulQR(sign * s3, m, 300000)
        low == MulQR(9 * sign * s3, m, 3000000)
        high == MulQR(11 * sign * s3, m, 3000000)
    IN  IF sqft = 0 THEN [error |-> "ZeroDivisionError"]
        ELSE [predicted_arv |->
                  IntOfFloat(sign * predicted.q, predicted.r = 0, short.predicted_arv),
              low_estimate |-> IntOfFloat(sign * low.q, low.r = 0, short.low_estimate),
              high_estimate |-> IntOfFloat(sign * high.q, high.r = 0, short.high_estimate),
              confidence |-> confidence,
              price_per_sqft |->
                  IntOfFloat(sign * (predicted.q \div sqft),
                             predicted.r = 0 /\ predicted.q % sqft = 0,
                             short.price_per_sqft),
              appreciation_rate |-> city_data.appreciation,
              factors |-> [base_value |->
                               IntOfFloat(base3 \div 3, base3 % 3 = 0, short.base_value),
                           bed_adjustment |-> bed_adjustment,
                           bath_adjustment |-> bath_adjustment,
                           age_multiplier |-> age_multiplier,
                           market_factor |-> appreciation_factor]]

\* TrendBonus that gives a stable population nothing
TrendBonusStableZero(population_trend) ==
    IF population_trend = "Growing" THEN 10 ELSE 0

\* line 779
TrendBonus(population_trend) ==
    IF population_trend = "Growing" THEN 10
    ELSE IF population_trend = "Stable" THEN 5 ELSE 0

\* lines 784-795
Grade(score) ==
    IF score >= 75 THEN "A"
    ELSE IF score >= 60 THEN "B"
    ELSE IF score >= 45 THEN "C"
    ELSE "D"

\* lines 784-795
InvestmentOutlook(score) ==
    IF score >= 75 THEN "Excellent investment area"
    ELSE IF score >= 60 THEN "Good investment potential"
    ELSE IF score >= 45 THEN "Moderate risk/reward"
    ELSE "Higher risk area"

\* lines 761-810; draw holds the values the random calls of lines 766-770 return and
\* short says whether the float sum of lines 773-780 fell short of a whole value
analyze_neighborhood(c, draw, short) ==
    LET city_data == CityData(c)
        \* 20 times the sum of lines 773-780
        sum20 == 40 * draw.school_rating + 40 * draw.crime_score + 2 * draw.walkability
                 + 4 * draw.job_growth + city_data.appreciation
                 + 20 * TrendBonus(draw.population_trend)
        score == Clamp(IntOfFloat(sum20 \div 20, sum20 % 20 = 0, short))
    IN  [score |-> score,
         grade |-> Grade(score),
         investment_outlook |-> InvestmentOutlook(score),
         metrics |-> [school_rating |-> draw.school_rating,
                      crime_score |-> draw.crime_score,
                      walkability |-> draw.walkability,
                      job_growth |-> draw.job_growth,
                      appreciation |-> city_data.appreciation,
                      population_trend |-> draw.population_trend,
                      median_price |-> city_data.median_price]]

(***************************************************************************)
(* The Quick Deal Analyzer of the AI Tools page (lines 2107-2147).  Money  *)
(* the code holds as a float is kept in hundredths of a dollar, so         *)
(* deal_arv * 0.01 * deal_holding is deal_arv * deal_holding.              *)
(***************************************************************************)
\* the verdict with a net-profit condition on the MARGINAL branch as well
DealVerdictMarginalNeedsProfit(roi, net_profit) ==
    IF FracGe(roi, 20) /\ net_profit >= 100 * 20000 THEN "GOOD DEAL - Strong returns!"
    ELSE IF FracGe(roi, 15) /\ net_profit >= 100 * 15000
         THEN "DECENT DEAL - Acceptable returns"
    ELSE IF FracGe(roi, 10) /\ net_profit >= 100 * 10000
         THEN "MARGINAL - Consider negotiating"
    ELSE "PASS - Numbers don't work"

\* lines 2139-2146 (net_profit in hundredths of a dollar)
DealVerdict(roi, net_profit) ==
    IF FracGe(roi, 20) /\ net_profit >= 100 * 20000 THEN "GOOD DEAL - Strong returns!"
    ELSE IF FracGe(roi, 15) /\ net_profit >= 100 * 15000
         THEN "DECENT DEAL - Acceptable returns"
    ELSE IF FracGe(roi, 10) THEN "MARGINAL - Consider negotiating"
    ELSE "PASS - Numbers don't work"

\* lines 2118-2146: what the Analyze Deal button computes from the four inputs
AnalyzeDealButton(d) ==
    LET holding_costs == d.deal_arv * d.deal_holding
        selling_costs == 9 * d.deal_arv
        total_investment ==
            100 * d.deal_price + 100 * d.deal_repairs + holding_costs + selling_costs
        net_profit == 100 * d.deal_arv - total_investment
        roi == IF total_investment > 0
               THEN Frac(100 * net_profit, total_investment) ELSE FracZero
        max_offer == 70 * d.deal_arv - 100 * d.deal_repairs
    IN  [holding_costs |-> holding_costs,
         selling_costs |-> selling_costs,
         total_investment |-> total_investment,
         net_profit |-> net_profit,
         roi |-> roi,
         max_offer |-> max_offer,
         verdict |-> DealVerdict(roi, net_profit)]

(***************************************************************************)
(* Inputs.  Each choice set holds dicts with zero or one key; a property   *)
(* dict is the union (@@) of one choice per key, so every key may be       *)
(* missing.                                                                *)
(***************************************************************************)
\* the most price reductions a record carries (the mock generator draws 0..3, line 360)
MaxReductions == 2

\* the most distress signals a record carries (the mock generator draws 0..5, line 341)
MaxSignals == 5

\* the list-price grid of the profit specification: k * PriceStep, k in 0..MaxPriceSteps
PriceStep == 5000

MaxPriceSteps == 18

\* a list price that is no multiple of 5, so that int(list_price * 1.2) truncates
OddPrice == 33333

\* line 93
DISTRESS_SIGNALS ==
    << "Pre-Foreclosure", "Foreclosure", "Auction", "Tax Lien",
       "Vacant", "Absentee Owner", "Probate/Estate", "High Equity",
       "Divorce", "Code Violations", "Tired Landlord" >>

\* the three signals of the specification's worked example (raw motivation 44)
ExampleSignals == << "Foreclosure", "Pre-Foreclosure", "Probate/Estate" >>

\* a key that is missing, or present with one of the values vs
Choices(k, vs) == {EmptyDict} \cup {Field(k, v) : v \in vs}

\* the signal lists of the scoring specification: missing, the example, MaxSignals tags
ScoreSignalChoices ==
    Choices("distress_signals",
            {PyList(ExampleSignals), PyList(SubSeq(DISTRESS_SIGNALS, 1, MaxSignals))})

\* the clock values: a winter month and a summer month of the current year
Clocks == {[year |-> 2026, month |-> m] : m \in {1, 6}}

\* records of the scoring specification: every key of every bucket varies
ScoreInputs ==
    { lp @@ av @@ sq @@ yb @@ eq @@ ow @@ dm @@ pr @@ ds @@ ph @@ em @@ ml :
        lp \in Choices("list_price", {OddPrice, 60000}),
        av \in Choices("arv", {100000}),
        sq \in Choices("sqft", {0}),
        yb \in Choices("year_built", {0}),
        eq \in Choices("equity_percent", {70, 95}),
        ow \in Choices("ownership_years", {15}),
        dm \in Choices("days_on_market", {90}),
        pr \in Choices("price_reductions", 1..MaxReductions),
        ds \in ScoreSignalChoices,
        ph \in Choices("owner_phone", {"(313) 555-0142"}),
        em \in Choices("owner_email", {"owner@example.com"}),
        ml \in Choices("owner_mailing", {"100 Main St, Detroit, MI"}) }

\* records of the profit specification: the keys of the financial analysis vary finely
ProfitInputs ==
    { lp @@ av @@ sq @@ yb :
        lp \in Choices("list_price",
                       {k * PriceStep : k \in 0..MaxPriceSteps} \cup {OddPrice}),
        av \in Choices("arv", {0, 100000, 150000}),
        sq \in Choices("sqft", {0, 1000}),
        yb \in Choices("year_built", {0, 1800, 1801, 1975, 1976, 2000, 2020}) }

(***************************************************************************)
(* The database (lines 221-313, 816-958) and the demo data (lines 319-458) *)
(***************************************************************************)
\* Python's None where a str may stand (no id is spelled this way)
None == "None"

\* Python's None where a row may stand
NoRow == [none |-> TRUE]

\* lines 227-310 on a new file: every table exists and is empty
EmptyDb == [properties |-> EmptyDict, followups |-> <<>>, notes |-> <<>>, alerts |-> <<>>]

\* lines 821-867: the row save_property writes for the dict p and its priority_data
SavedRow(p, priority_data, prop_id) ==
    [id |-> prop_id,
     address |-> Get(p, "address", ""),
     city |-> Get(p, "city", ""),
     beds |-> Get(p, "beds", 0),
     baths |-> Get(p, "baths", 0),
     sqft |-> Get(p, "sqft", 0),
     year_built |-> Get(p, "year_built", 0),
     list_price |-> Get(p, "list_price", 0),
     arv |-> Get(p, "arv", 0),
     equity_percent |-> Get(p, "equity_percent", 0),
     days_on_market |-> Get(p, "days_on_market", 0),
     price_reductions |-> Get(p, "price_reductions", 0),
     ownership_years |-> Get(p, "ownership_years", 0),
     distress_signals |-> SerializedSignals(Get(p, "distress_signals", PyList(<<>>))),
     owner_phone |-> Get(p, "owner_phone", ""),
     owner_email |-> Get(p, "owner_email", ""),
     owner_mailing |-> Get(p, "owner_mailing", ""),
     stage |-> Get(p, "stage", "New Lead"),
     priority_score |-> Get(priority_data, "score", 0),
     priority_tier |-> Get(priority_data, "tier", "MONITOR"),
     neighborhood_score |-> Get(p, "neighborhood_score", 50)]

\* lines 816-871: INSERT OR REPLACE of the row under its id; generated_id is the
\* timestamp id of line 821, used when the dict has no 'id'.  The properties table after.
save_property(properties, p, priority_data, generated_id) ==
    LET prop_id == Get(p, "id", generated_id)
        row == SavedRow(p, priority_data, prop_id)
    IN  (prop_id :> row) @@ properties

\* lines 880-891: the row as a dict of its columns, or None (NoRow)
get_property_by_id(properties, prop_id) ==
    IF prop_id \in DOMAIN properties THEN properties[prop_id] ELSE NoRow

\* lines 893-900: UPDATE ... WHERE id = ? (no row, no change)
update_property_stage(properties, prop_id, new_stage) ==
    [x \in DOMAIN properties |->
        IF x = prop_id THEN [properties[x] EXCEPT !.stage = new_stage] ELSE properties[x]]

\* lines 921-928: the notes table after the insert
add_note(notes, prop_id, content) ==
    Append(notes, [property_id |-> prop_id, content |-> content, author |-> "User"])

\* lines 940-948: the followups table after the insert
add_followup(followups, prop_id, followup_type, assignee) ==
    Append(followups, [property_id |-> prop_id, type |-> followup_type,
                       assignee |-> assignee, status |-> "pending"])

\* lines 445-451: the alerts of the demo (type and priority of each)
MockAlerts ==
    << [type |-> "hot_lead", priority |-> "high"],
       [type |-> "price_drop", priority |-> "high"],
       [type |-> "new_listing", priority |-> "medium"],
       [type |-> "followup", priority |-> "medium"],
       [type |-> "market", priority |-> "low"] >>

\* lines 440-458: the alerts table after the inserts
generate_mock_alerts(alerts) == alerts \o MockAlerts

\* line 99
PIPELINE_STAGES ==
    << "New Lead", "Contacted", "Qualified", "Offer Made", "Under Contract", "Closed",
       "Dead/Lost" >>

\* str(d) of one decimal digit
Digit(d) == <<"0", "1", "2", "3", "4", "5", "6", "7", "8", "9">>[d + 1]

RECURSIVE Decimal(_)
\* str(n) for n >= 0
Decimal(n) == IF n < 10 THEN Digit(n) ELSE Decimal(n \div 10) \o Digit(n % 10)

\* f"{n:04d}" for 0 <= n <= 9999
Pad4(n) ==
    Digit(n \div 1000) \o Digit((n \div 100) % 10) \o Digit((n \div 10) % 10)
    \o Digit(n % 10)

\* line 427: the number of demo properties
MockCount == 50

\* the cities, streets and trends the draws below choose among (lines 324, 364, 770);
\* the cities are the cheaper ones, which keeps the money of a score in TLC's integers
MockCities == << "Detroit", "Flint", "Saginaw", "Pontiac", "Lansing" >>

MockStreets == << "Main St", "Oak Ave" >>

MockTrends == << "Growing", "Stable", "Declining" >>

\* line 385: the id of the k-th property
MockId(k) == "prop_" \o Pad4(k)

\* lines 323-412: the k-th property (k = i + 1) of one outcome g of the generator's random
\* draws; every value lies in the range its draw has in the code (sqft in the lower part
\* of 800..3500, baths in half baths as everywhere in this module)
MockProperty(k, g) ==
    LET city_name == MockCities[((k + g) % Len(MockCities)) + 1]
        sqft == 800 + ((53 * k + 700 * g) % 1201)
        price_variance == 50 + ((13 * k * g) % 101)
        list_price ==
            MulQR(MICHIGAN_CITIES[city_name].median_price * price_variance, sqft, 150000).q
        num_signals == (k + g) % 6
        signals == [j \in 1..num_signals |->
                       DISTRESS_SIGNALS[((3 * k + g + j) % Len(DISTRESS_SIGNALS)) + 1]]
        ownership_years == 1 + ((5 * k + g) % 30)
        equity_percent == IF ownership_years > 15 THEN 70 + (k % 31)
                          ELSE IF ownership_years > 7 THEN 40 + (k % 41)
                          ELSE 10 + (k % 41)
        days_on_market ==
            IF In("Foreclosure", signals) \/ In("Pre-Foreclosure", signals)
            THEN 60 + ((11 * k) % 121) ELSE 5 + ((11 * k) % 116)
    IN  [id |-> MockId(k),
         address |-> Decimal(1000 * g + k) \o " " \o MockStreets[(k % 2) + 1],
         city |-> city_name,
         beds |-> 2 + (k % 4),
         baths |-> 2 + ((k + g) % 5),
         sqft |-> sqft,
         year_built |-> 1920 + ((7 * k + 40 * g) % 96),
         list_price |-> list_price,
         arv |-> (list_price * (115 + ((7 * k * g) % 26))) \div 100,
         equity_percent |-> equity_percent,
         days_on_market |-> days_on_market,
         price_reductions |-> (k + g) % 4,
         ownership_years |-> ownership_years,
         distress_signals |-> PyList(signals),
         owner_phone |-> IF k % 3 # 0 THEN "(313) 555-0142" ELSE "",
         owner_email |-> IF k % 2 = 0 THEN "james.smith@gmail.com" ELSE "",
         owner_mailing |-> "100 Main St, " \o city_name \o ", MI",
         stage |-> PIPELINE_STAGES[((k + g) % Len(PIPELINE_STAGES)) + 1]]

\* lines 766-770 for the k-th property of outcome g
MockNeighborhoodDraw(k, g) ==
    [school_rating |-> 4 + (k % 7), crime_score |-> 3 + ((k + g) % 7),
     walkability |-> 20 + ((k * g) % 66), job_growth |-> 15 + (k % 71),
     population_trend |-> MockTrends[(k % 3) + 1]]

\* lines 428-432: each of the MockCount properties of outcome g is scored, given its
\* neighborhood_score and saved.  The ids differ, so a save of the loop touches no row
\* of another: the row under the k-th id is the one the k-th save writes.
SaveMockProperties(properties, g, clock) ==
    LET saved(k) ==
            LET prop == MockProperty(k, g)
                priority == calculate_ai_priority_score(prop, clock)
                neighborhood == analyze_neighborhood(prop.city, MockNeighborhoodDraw(k, g),
                                                     FALSE)
            IN  save_property(properties,
                              Field("neighborhood_score", neighborhood.score) @@ prop,
                              priority, "")
        ids == {MockId(k) : k \in 1..MockCount}
    IN  [x \in DOMAIN properties \cup ids |->
            IF x \in ids THEN saved(CHOOSE k \in 1..MockCount : MockId(k) = x)[x]
            ELSE properties[x]]

\* load_mock_data without the test of line 426: the demo data is loaded into any table
load_mock_dataUnguarded(d, g, clock) ==
    [db |-> [d EXCEPT !.properties = SaveMockProperties(@, g, clock),
                      !.alerts = generate_mock_alerts(@)],
     returned |-> TRUE]

\* lines 418-438: the database after the call, and what the call returned
load_mock_data(d, g, clock) ==
    IF Cardinality(DOMAIN d.properties) = 0 THEN
        [db |-> [d EXCEPT !.properties = SaveMockProperties(@, g, clock),
                          !.alerts = generate_mock_alerts(@)],
         returned |-> TRUE]
    ELSE [db |-> d, returned |-> FALSE]

\* lines 1292-1300 of main, given what line 1292 got from load_mock_data (loaded, the
\* database as it was with returned FALSE when the call was not made)
PrologueAfterLoad(ss, called, loaded) ==
    LET ss1 == IF loaded.returned THEN Field("mock_loaded", TRUE) @@ ss ELSE ss
        ss2 == IF "selected_property" \notin DOMAIN ss1
               THEN Field("selected_property", None) @@ ss1 ELSE ss1
    IN  [db |-> loaded.db, session_state |-> ss2, called |-> called,
         returned |-> loaded.returned]

\* lines 1286-1300 of main: the database and the session after the prologue of a run,
\* whether load_mock_data was called and what it returned
MainPrologue(d, ss, g, clock) ==
    PrologueAfterLoad(ss, "mock_loaded" \notin DOMAIN ss,
                      IF "mock_loaded" \notin DOMAIN ss THEN load_mock_data(d, g, clock)
                      ELSE [db |-> d, returned |-> FALSE])

(***************************************************************************)
(* Specifications                                                          *)
(***************************************************************************)
NoResult == [none |-> TRUE]

\* lines 2112-2116: the values the four number inputs show when the page is drawn
DealDefaults ==
    [deal_price |-> 100000, deal_arv |-> 150000, deal_repairs |-> 30000,
     deal_holding |-> 4]

InitWith(inputs) ==
    /\ property_data \in inputs
    /\ city = ""
    /\ now \in Clocks
    /\ op = "none"
    /\ result = NoResult
    /\ prev = NoResult
    /\ cities = MICHIGAN_CITIES
    /\ deal = DealDefaults
    /\ db = EmptyDb
    /\ session_state = EmptyDict

\* a caller scores the record (lines 429, 1347-1363)
Score ==
    /\ op = "none"
    /\ op' = "score"
    /\ result' = calculate_ai_priority_score(property_data, now)
    /\ property_data' = RecordAfterScore(property_data)
    /\ UNCHANGED <<city, now, prev, cities, deal, db, session_state>>

\* the same record with a lower list price is scored at the same clock
LowerPrice ==
    /\ op = "score"
    /\ "list_price" \in DOMAIN property_data
    /\ \E lower \in {k * PriceStep : k \in 0..MaxPriceSteps} :
          /\ lower < property_data.list_price
          /\ property_data' = [property_data EXCEPT !.list_price = lower]
    /\ result' = calculate_ai_priority_score(property_data', now)
    /\ prev' = result
    /\ UNCHANGED <<city, now, op, cities, deal, db, session_state>>

Init == InitWith(ScoreInputs)

Next == Score

\* the scoring engine over records in which the keys of every bucket vary
Spec == Init /\ [][Next]_vars

InitProfit == InitWith(ProfitInputs)

NextProfit == Score \/ LowerPrice

\* the financial analysis and the profit bucket over a fine grid of prices
SpecProfit == InitProfit /\ [][NextProfit]_vars

\* the largest purchase price and ARV of the deal specification, in steps of DealStep
MaxDealSteps == 30

\* lines 2112-2115: step=5000 of the price, ARV and repairs inputs
DealStep == 5000

\* lines 2112-2116: values the four number inputs can hold (min_value 0; months 1..12)
DealInputs ==
    [deal_price : {k * DealStep : k \in 0..MaxDealSteps},
     deal_arv : {k * DealStep : k \in 0..MaxDealSteps},
     deal_repairs : {0, 6 * DealStep, 10 * DealStep},
     deal_holding : 1..12]

\* the user presses Analyze Deal (line 2118)
AnalyzeDeal ==
    /\ op = "none"
    /\ op' = "analyze_deal"
    /\ result' = AnalyzeDealButton(deal)
    /\ UNCHANGED <<property_data, city, now, prev, cities, deal, db, session_state>>

InitDeal ==
    /\ property_data = EmptyDict
    /\ city = ""
    /\ now \in Clocks
    /\ op = "none"
    /\ result = NoResult
    /\ prev = NoResult
    /\ cities = MICHIGAN_CITIES
    /\ deal \in DealInputs
    /\ db = EmptyDb
    /\ session_state = EmptyDict

NextDeal == AnalyzeDeal

\* the deal calculator over the values its inputs can hold
SpecDeal == InitDeal /\ [][NextDeal]_vars

\* records of the engine specification: the keys predict_arv reads, zero values included
EngineInputs ==
    { lp @@ av @@ sq @@ bd @@ bt @@ yb :
        lp \in Choices("list_price", {0}),
        av \in Choices("arv", {0}),
        sq \in Choices("sqft", {0, 1000}),
        bd \in Choices("beds", {2}),
        bt \in Choices("baths", {3}),
        yb \in Choices("year_built", {0, 2020}) }

\* city keys: two of the table, the empty string and a city the table does not hold
EngineCities == {"Detroit", "Saginaw", "", "Atlantis"}

\* line 739: random.randint(75, 95)
Confidences == 75..95

\* lines 766-770: the extreme values of each random draw
Draws ==
    [school_rating : {4, 10}, crime_score : {3, 9}, walkability : {20, 85},
     job_growth : {15, 85}, population_trend : {"Growing", "Stable", "Declining"}]

\* for each int() of predict_arv's return statement, whether its float fell short
Shortfalls ==
    [predicted_arv : BOOLEAN, low_estimate : BOOLEAN, high_estimate : BOOLEAN,
     price_per_sqft : BOOLEAN, base_value : BOOLEAN]

\* a caller predicts the ARV of the record (lines 1444, 2052)
PredictArv ==
    /\ op = "none"
    /\ op' = "predict_arv"
    /\ \E confidence \in Confidences, short \in Shortfalls :
          result' = predict_arv(property_data, city, now, confidence, short)
    /\ UNCHANGED <<property_data, city, now, prev, cities, deal, db, session_state>>

\* a caller analyses the neighbourhood of a city (lines 430, 1434, 2084)
AnalyzeNeighborhood ==
    /\ op = "none"
    /\ op' = "analyze_neighborhood"
    /\ \E draw \in Draws, short \in BOOLEAN :
          result' = analyze_neighborhood(city, draw, short)
    /\ UNCHANGED <<property_data, city, now, prev, cities, deal, db, session_state>>

InitEngine ==
    /\ property_data \in EngineInputs
    /\ city \in EngineCities
    /\ now \in Clocks
    /\ op = "none"
    /\ result = NoResult
    /\ prev = NoResult
    /\ cities = MICHIGAN_CITIES
    /\ deal = DealDefaults
    /\ db = EmptyDb
    /\ session_state = EmptyDict

NextEngine == Score \/ PredictArv \/ AnalyzeNeighborhood

\* the three entry points of the engine
SpecEngine == InitEngine /\ [][NextEngine]_vars

(***************************************************************************)
(* Properties                                                              *)
(***************************************************************************)
\* whether r is a result of calculate_ai_priority_score (the only one with a tier)
IsScoreResult(r) == "tier" \in DOMAIN r

RECURSIVE SumPoints(_)
\* the sum of the points of a list of factors
SumPoints(factors) ==
    IF factors = <<>> THEN 0 ELSE Head(factors).points + SumPoints(Tail(factors))

RECURSIVE PointsIn(_, _)
\* the sum of the points of the factors of one category
PointsIn(factors, category) ==
    IF factors = <<>> THEN 0
    ELSE (IF Head(factors).category = category THEN Head(factors).points ELSE 0)
         + PointsIn(Tail(factors), category)

\* the record has no distress signals: the key is missing or holds the empty list
NoSignals(p) == Get(p, "distress_signals", PyList(<<>>)) = PyList(<<>>)

\* the record has no owner phone, email or mailing address
NoContact(p) ==
    /\ Get(p, "owner_phone", "") = ""
    /\ Get(p, "owner_email", "") = ""
    /\ Get(p, "owner_mailing", "") = ""

\* the construction year is the age sentinel
AgeSentinel(p) == Get(p, "year_built", 1970) <= 1800

\* C1: the score every call of calculate_ai_priority_score returns is an integer
\* between 0 and 100.
C1_ScoreInRange == op = "score" => result.score \in 0..100

\* C1 witness: a scored record whose rules add up to more than 100 points and whose
\* score is the cap.
C1_Witness ==
    op = "score" /\ SumPoints(result.factors) > 100 /\ result.score = 100

\* C2: the tier is decided by the clamped score alone (HOT iff >= 75, WARM iff 55..74,
\* NURTURE iff 35..54, MONITOR iff < 35) and each tier carries its one action string.
C2_TierFollowsScore ==
    op = "score" =>
        /\ (result.tier = "HOT") <=> (result.score >= 75)
        /\ (result.tier = "WARM") <=> (result.score >= 55 /\ result.score < 75)
        /\ (result.tier = "NURTURE") <=> (result.score >= 35 /\ result.score < 55)
        /\ (result.tier = "MONITOR") <=> (result.score < 35)
        /\ result.action = CASE result.tier = "HOT" -> "CALL TODAY - Drop everything!"
                             [] result.tier = "WARM" -> "Contact within 48 hours"
                             [] result.tier = "NURTURE" -> "Add to drip campaign"
                             [] result.tier = "MONITOR" -> "Watch for price drops"

\* C2 witness: a record scored exactly at the HOT threshold.
C2_Witness == op = "score" /\ result.score = 75 /\ result.tier = "HOT"

\* C3 (as claimed): the motivation points that reach the score are at most the
\* 35-point cap of the bucket.
C3_MotivationCapped ==
    op = "score" => PointsIn(result.factors, "motivation") <= 35

C5_LowerPriceNeverLowersProfit ==
    (op = "score" /\ IsScoreResult(prev)) =>
        PointsIn(result.factors, "profit") >= PointsIn(prev.factors, "profit")

\* C5 witness: a price cut that raised the profit-potential points.
C5_Witness ==
    /\ op = "score"
    /\ IsScoreResult(prev)
    /\ PointsIn(result.factors, "profit") > PointsIn(prev.factors, "profit")

\* C6 (as claimed): a record with the age sentinel, no distress signals and no contact
\* information is in the MONITOR tier, whatever its other fields and the month.
C6_SentinelIsMonitor ==
    (op = "score" /\ AgeSentinel(property_data) /\ NoSignals(property_data)
     /\ NoContact(property_data)) =>
        (result.tier = "MONITOR" /\ result.score < 35)

\* C6 (amended): such a record is in the MONITOR tier when, in addition, its ROI is
\* below 10 %, its ownership under 15 years and its equity under 50 %, whatever its
\* days on market, price reductions and the month.
C6_SentinelLowRoiIsMonitor ==
    (op = "score" /\ AgeSentinel(property_data) /\ NoSignals(property_data)
     /\ NoContact(property_data)
     /\ ~FracGe(result.financials.roi, 10)
     /\ Get(property_data, "ownership_years", 5) < 15
     /\ Get(property_data, "equity_percent", 0) < 50) =>
        (result.tier = "MONITOR" /\ result.score < 35)

\* C6 witness: such a record with a stale listing, price reductions and the winter
\* bonus, scored 29.
C6_Witness ==
    /\ op = "score" /\ AgeSentinel(property_data) /\ NoSignals(property_data)
    /\ NoContact(property_data)
    /\ ~FracGe(result.financials.roi, 10)
    /\ Get(property_data, "ownership_years", 5) < 15
    /\ Get(property_data, "equity_percent", 0) < 50
    /\ PointsIn(result.factors, "urgency") = 19
    /\ result.score = 29

\* C8 (as claimed): no entry point raises an error, whatever the input.
C8_NoEntryPointAborts == op # "none" => "error" \notin DOMAIN result

\* C9: gap_percent is 0 whenever the ARV is not positive and roi is 0 whenever
\* total_investment <= 0; otherwise they are gap / ARV * 100 and
\* net_profit / total_investment * 100, with a non-zero denominator.
C9_ZeroDenominatorGuards ==
    op = "score" =>
        LET list_price == Get(property_data, "list_price", 0)
            arv == ArvUsed(property_data, list_price)
            fin == result.financials
        IN  /\ arv <= 0 => fin.gap_percent = FracZero
            /\ arv > 0 => fin.gap_percent = Frac(fin.max_offer - 100 * list_price, arv)
            /\ fin.total_investment <= 0 => fin.roi = FracZero
            /\ fin.total_investment > 0 =>
                  fin.roi = Frac(100 * fin.net_profit, fin.total_investment)
            /\ fin.gap_percent.den > 0
            /\ fin.roi.den > 0

\* C9 witness: a record with ARV 0 and total investment 0, where both guards act.
C9_Witness ==
    /\ op = "score"
    /\ ArvUsed(property_data, Get(property_data, "list_price", 0)) = 0
    /\ result.financials.total_investment = 0
    /\ result.financials.gap_percent = FracZero
    /\ result.financials.roi = FracZero

\* the profit factors the gap and ROI rules give for a financial analysis
ProfitFactorsOf(fin) == GapRule(fin.gap_percent).factors \o RoiRule(fin.roi).factors

\* the factors of one category, in order
FactorsIn(factors, category) ==
    SelectSeq(factors, LAMBDA f : f.category = category)

\* C10 (as claimed): the ARV used is the record's ARV, or list_price x 1.2 when the ARV
\* is absent; max_offer = ARV x 0.70 - repairs, total_investment = list_price +
\* repairs + ARV x 0.13, net_profit = ARV - total_investment (in hundredths of a
\* dollar; total_investment and net_profit times ten where ARV is list_price x 1.2).
C10_FinancialsExactMarkup ==
    op = "score" =>
        LET list_price == Get(property_data, "list_price", 0)
            fin == result.financials
            repairs == fin.estimated_repairs
        IN  IF "arv" \in DOMAIN property_data
            THEN /\ fin.max_offer = 70 * property_data.arv - 100 * repairs
                 /\ fin.total_investment =
                        100 * list_price + 100 * repairs + 13 * property_data.arv
                 /\ fin.net_profit = 100 * property_data.arv - fin.total_investment
            ELSE /\ fin.max_offer = 84 * list_price - 100 * repairs
                 /\ 10 * fin.total_investment =
                        1000 * list_price + 1000 * repairs + 156 * list_price
                 /\ 10 * fin.net_profit = 1200 * list_price - 10 * fin.total_investment

\* C10 (amended): the ARV used is the record's ARV, or list_price x 1.2 truncated to a
\* whole number when the ARV is absent or 0; max_offer, total_investment and net_profit
\* follow from it as claimed, and the profit factors are those of these values.
C10_FinancialsTruncatedMarkup ==
    op = "score" =>
        LET list_price == Get(property_data, "list_price", 0)
            given == Get(property_data, "arv", 0)
            arv == IF given # 0 THEN given ELSE (6 * list_price) \div 5
            fin == result.financials
            repairs == fin.estimated_repairs
        IN  /\ fin.max_offer = 70 * arv - 100 * repairs
            /\ fin.total_investment = 100 * list_price + 100 * repairs + 13 * arv
            /\ fin.net_profit = 100 * arv - fin.total_investment
            /\ FactorsIn(result.factors, "profit") = ProfitFactorsOf(fin)

\* C10 witness: a record without ARV whose list price times 1.2 is no whole number.
C10_Witness ==
    /\ op = "score"
    /\ "arv" \notin DOMAIN property_data
    /\ Get(property_data, "list_price", 0) % 5 # 0
    /\ result.financials.max_offer # 84 * Get(property_data, "list_price", 0)
                                      - 100 * result.financials.estimated_repairs

RECURSIVE Pick(_, _)
\* the items of lst at the positions in S, in the order of lst
Pick(lst, S) ==
    IF lst = <<>> THEN <<>>
    ELSE Pick(SubSeq(lst, 1, Len(lst) - 1), S)
         \o (IF Len(lst) \in S THEN <<lst[Len(lst)]>> ELSE <<>>)

\* the lists of at most MaxSignals different tags of DISTRESS_SIGNALS (line 342 draws
\* such a sample), the empty list included
SignalLists ==
    { Pick(DISTRESS_SIGNALS, S) :
        S \in {T \in SUBSET (1..Len(DISTRESS_SIGNALS)) : Cardinality(T) <= MaxSignals} }

\* records of the signal specification: every signal list, with and without the
\* equity that fires both equity rules
SignalInputs ==
    { ds @@ eq :
        ds \in Choices("distress_signals", {PyList(l) : l \in SignalLists}),
        eq \in Choices("equity_percent", {95}) }

\* the record is scored as it comes back from storage: with its signals serialized
\* (save_property lines 823-825, scored at line 1363)
ScoreSerialized ==
    /\ op = "score"
    /\ property_data' =
           Field("distress_signals",
                 SerializedSignals(Get(property_data, "distress_signals", PyList(<<>>))))
           @@ property_data
    /\ op' = "score_serialized"
    /\ result' = calculate_ai_priority_score(property_data', now)
    /\ prev' = result
    /\ UNCHANGED <<city, now, cities, deal, db, session_state>>

InitSignals == InitWith(SignalInputs)

NextSignals == Score \/ ScoreSerialized

\* scoring a record before and after its signals are serialized
SpecSignals == InitSignals /\ [][NextSignals]_vars

\* records of the ARV specification: the keys predict_arv reads, over the values the
\* ARV Predictor accepts (lines 2036-2040: beds >= 1, baths >= 1.0, sqft >= 500) and
\* construction years at the three age limits and beyond the lowest
ArvInputs ==
    { sq @@ bd @@ bt @@ yb :
        sq \in Choices("sqft", {500, 2000}),
        bd \in Choices("beds", {1, 5}),
        bt \in Choices("baths", {2, 3, 5}),
        yb \in Choices("year_built", {1976, 2001, 2015, 2016}) }

\* city keys of the ARV specification: the lowest-priced city and an unknown key
ArvCities == {"Saginaw", "Atlantis"}

InitArv ==
    /\ property_data \in ArvInputs
    /\ city \in ArvCities
    /\ now \in Clocks
    /\ op = "none"
    /\ result = NoResult
    /\ prev = NoResult
    /\ cities = MICHIGAN_CITIES
    /\ deal = DealDefaults
    /\ db = EmptyDb
    /\ session_state = EmptyDict

NextArv == PredictArv

\* predict_arv over the inputs of the ARV Predictor
SpecArv == InitArv /\ [][NextArv]_vars

\* records of the frame specification: signals as a list and as the stored string
FrameInputs ==
    { ds @@ sq :
        ds \in Choices("distress_signals",
                       {PyList(ExampleSignals), PyStr(Join(ExampleSignals, ","))}),
        sq \in Choices("sqft", {1000}) }

\* the caller takes the result and goes on to its next call (the detail view calls the
\* three entry points one after the other, lines 1363, 1434, 1444); prev keeps the
\* result of the last scoring call
Return ==
    /\ op \in {"score", "predict_arv", "analyze_neighborhood"}
    /\ op' = "none"
    /\ prev' = IF "tier" \in DOMAIN result THEN result ELSE prev
    /\ result' = NoResult
    /\ UNCHANGED <<property_data, city, now, cities, deal, db, session_state>>

InitFrame ==
    /\ property_data \in FrameInputs
    /\ city \in {"Detroit", "Atlantis"}
    /\ now \in Clocks
    /\ op = "none"
    /\ result = NoResult
    /\ prev = NoResult
    /\ cities = MICHIGAN_CITIES
    /\ deal = DealDefaults
    /\ db = EmptyDb
    /\ session_state = EmptyDict

NextFrame == Score \/ PredictArv \/ AnalyzeNeighborhood \/ Return

\* the three entry points called again and again, in any order, on one record
SpecFrame == InitFrame /\ [][NextFrame]_vars

\* records of the motivation specification: every signal list with equity and ownership
\* on both sides of each limit of lines 593-608
MotivationInputs ==
    { ds @@ eq @@ ow :
        ds \in Choices("distress_signals", {PyList(l) : l \in SignalLists}),
        eq \in Choices("equity_percent", {49, 50, 69, 70, 94, 95}),
        ow \in Choices("ownership_years", {14, 15}) }

InitMotivation == InitWith(MotivationInputs)

NextMotivation == Score

\* the seller-motivation rules over every signal list, equity and ownership
SpecMotivation == InitMotivation /\ [][NextMotivation]_vars

\* C11: the deal calculator computes holding_costs = arv x 0.01 x holding_months,
\* selling_costs = arv x 0.09, total_investment = price + repairs + holding_costs +
\* selling_costs, net_profit = arv - total_investment, roi = net_profit /
\* total_investment x 100 (0 when total_investment <= 0) and max_offer = arv x 0.7 -
\* repairs (in hundredths of a dollar); for (100000, 150000, 30000, 4) these are 6000,
\* 13500, 149500, 500, about 0.33 % and 75000; the verdict is PASS exactly when
\* roi < 10.
C11_DealEconomics ==
    op = "analyze_deal" =>
        /\ result.holding_costs = deal.deal_arv * deal.deal_holding
        /\ result.selling_costs = 9 * deal.deal_arv
        /\ result.total_investment = 100 * (deal.deal_price + deal.deal_repairs)
                                      + result.holding_costs + result.selling_costs
        /\ result.net_profit = 100 * deal.deal_arv - result.total_investment
        /\ result.total_investment <= 0 => result.roi = FracZero
        /\ result.total_investment > 0 =>
              result.roi = Frac(100 * result.net_profit, result.total_investment)
        /\ result.max_offer = 70 * deal.deal_arv - 100 * deal.deal_repairs
        /\ (result.verdict = "PASS - Numbers don't work") <=> ~FracGe(result.roi, 10)
        /\ (deal = [deal_price |-> 100000, deal_arv |-> 150000,
                    deal_repairs |-> 30000, deal_holding |-> 4]) =>
              /\ result.holding_costs = 100 * 6000
              /\ result.selling_costs = 100 * 13500
              /\ result.total_investment = 100 * 149500
              /\ result.net_profit = 100 * 500
              /\ 100 * result.roi.num >= 33 * result.roi.den
              /\ 100 * result.roi.num < 34 * result.roi.den
              /\ result.max_offer = 100 * 75000
              /\ result.verdict = "PASS - Numbers don't work"

\* C11 witness: the worked example has been analysed and its verdict is PASS.
C11_Witness ==
    /\ op = "analyze_deal"
    /\ deal = [deal_price |-> 100000, deal_arv |-> 150000,
               deal_repairs |-> 30000, deal_holding |-> 4]
    /\ result.net_profit = 100 * 500
    /\ result.verdict = "PASS - Numbers don't work"

\* whether r is a result of predict_arv
IsArvResult(r) == "predicted_arv" \in DOMAIN r

\* C12: predict_arv computes predicted_arv = (sqft x median_price / 1500 + (beds - 3) x
\* 10000 + max(0, baths - 1.5) x 7500) x age_multiplier x (1 + appreciation / 100),
\* with age_multiplier 1.15 for age <= 10, 1.05 for age <= 25, 1.00 for age <= 50, else
\* 0.92; with beds = 3 and baths = 1.5 both adjustments are zero, and the bathroom
\* adjustment is never negative.  The value returned is int() of that float: its
\* fraction dropped, or one unit nearer zero where the product is whole and the float
\* fell short.
C12_ArvFormula ==
    (op = "predict_arv" /\ IsArvResult(result)) =>
        LET sqft == Get(property_data, "sqft", 1500)
            beds == Get(property_data, "beds", 3)
            halfbaths == Get(property_data, "baths", 4)
            age == now.year - Get(property_data, "year_built", 1970)
            mult == IF age <= 10 THEN 115 ELSE IF age <= 25 THEN 105
                    ELSE IF age <= 50 THEN 100 ELSE 92
            bed == (beds - 3) * 10000
            bath == IF halfbaths > 3 THEN (halfbaths - 3) * 3750 ELSE 0
            \* 1500 times the sum in brackets, as a whole number
            sum1500 == sqft * CityData(city).median_price + 1500 * (bed + bath)
            sign == IF sum1500 >= 0 THEN 1 ELSE -1
            \* predicted = sum1500 * mult * (1000 + appreciation) / (1500 * 100 * 1000)
            exact == MulQR(sign * (sum1500 \div 500),
                           mult * (1000 + CityData(city).appreciation), 300000)
        IN  /\ result.factors.bed_adjustment = bed
            /\ result.factors.bath_adjustment = bath
            /\ result.factors.bath_adjustment >= 0
            /\ (beds = 3 /\ halfbaths = 3) =>
                  (result.factors.bed_adjustment = 0 /\ result.factors.bath_adjustment = 0)
            /\ result.factors.age_multiplier = mult
            /\ result.factors.market_factor = 1000 + CityData(city).appreciation
            /\ \/ result.predicted_arv = sign * exact.q
               \/ /\ exact.r = 0
                  /\ exact.q > 0
                  /\ result.predicted_arv = sign * (exact.q - 1)

\* C12 witness: the baseline case (3 bedrooms, 1.5 baths) for a home exactly 10 years
\* old: no adjustment, multiplier 1.15.
C12_Witness ==
    /\ op = "predict_arv" /\ IsArvResult(result)
    /\ Get(property_data, "beds", 3) = 3
    /\ Get(property_data, "baths", 4) = 3
    /\ now.year - Get(property_data, "year_built", 1970) = 10
    /\ result.factors.bed_adjustment = 0
    /\ result.factors.bath_adjustment = 0
    /\ result.factors.age_multiplier = 115
    /\ result.predicted_arv > 0

\* C13 (as claimed): for every input of predict_arv the bounds bracket the point
\* estimate: low_estimate <= predicted_arv <= high_estimate.
C13_BoundsBracketEstimate ==
    (op = "predict_arv" /\ IsArvResult(result)) =>
        /\ result.low_estimate <= result.predicted_arv
        /\ result.predicted_arv <= result.high_estimate

\* C14 (as claimed): when the city key passed to predict_arv or analyze_neighborhood is
\* no key of MICHIGAN_CITIES (the empty string included) the call uses median price
\* 150000 and appreciation 8.0 and completes normally; a known key uses the city's own
\* median price and appreciation; the table is never modified.
C14_FallbackCompletes ==
    op \in {"predict_arv", "analyze_neighborhood"} =>
        LET known == city \in DOMAIN MICHIGAN_CITIES
            median == IF known THEN MICHIGAN_CITIES[city].median_price ELSE 150000
            appreciation == IF known THEN MICHIGAN_CITIES[city].appreciation ELSE 80
            base3 == Get(property_data, "sqft", 1500) * (median \div 500)
        IN  /\ cities = MICHIGAN_CITIES
            /\ ~known => "error" \notin DOMAIN result
            /\ IsArvResult(result) =>
                  /\ result.appreciation_rate = appreciation
                  /\ result.factors.market_factor = 1000 + appreciation
                  /\ \/ result.factors.base_value = base3 \div 3
                     \/ /\ base3 % 3 = 0
                        /\ base3 > 0
                        /\ result.factors.base_value = base3 \div 3 - 1
            /\ op = "analyze_neighborhood" =>
                  /\ result.metrics.median_price = median
                  /\ result.metrics.appreciation = appreciation

\* C15: for every city and every draw of the sampled metrics analyze_neighborhood
\* returns an integer score in 0..100 that is min(100, 2 x school + 2 x safety +
\* walkability / 10 + 2 x jobGrowth + appreciation / 2 + trendBonus) with trendBonus
\* Growing 10, Stable 5, Declining 0, and the grade follows from the score alone: A iff
\* >= 75, B iff 60..74, C iff 45..59, D iff < 45.  The score is int() of the float sum:
\* its fraction dropped, or one less where the sum is whole and the float fell short.
C15_NeighborhoodScore ==
    op = "analyze_neighborhood" =>
        LET m == result.metrics
            trendBonus == CASE m.population_trend = "Growing" -> 10
                            [] m.population_trend = "Stable" -> 5
                            [] m.population_trend = "Declining" -> 0
            \* 20 times the sum (job growth and appreciation are in tenths)
            sum20 == 40 * m.school_rating + 40 * m.crime_score + 2 * m.walkability
                     + 4 * m.job_growth + m.appreciation + 20 * trendBonus
            floor == sum20 \div 20
        IN  /\ result.score \in 0..100
            /\ \/ result.score = (IF floor < 100 THEN floor ELSE 100)
               \/ /\ sum20 % 20 = 0
                  /\ result.score = (IF floor - 1 < 100 THEN floor - 1 ELSE 100)
            /\ (result.grade = "A") <=> (result.score >= 75)
            /\ (result.grade = "B") <=> (result.score >= 60 /\ result.score < 75)
            /\ (result.grade = "C") <=> (result.score >= 45 /\ result.score < 60)
            /\ (result.grade = "D") <=> (result.score < 45)

\* C15 witness: a stable neighbourhood of a known city graded B on a sum that is no
\* whole number.
C15_Witness ==
    /\ op = "analyze_neighborhood"
    /\ city \in DOMAIN MICHIGAN_CITIES
    /\ result.metrics.population_trend = "Stable"
    /\ result.grade = "B"
    /\ (40 * result.metrics.school_rating + 40 * result.metrics.crime_score
        + 2 * result.metrics.walkability + 4 * result.metrics.job_growth
        + result.metrics.appreciation) % 20 # 0

\* C16: for every list of tags of DISTRESS_SIGNALS (the empty list included), joining
\* it with ',' as save_property does and scoring the record with the resulting string
\* gives the same score, tier and factors as scoring it with the list; the empty string
\* is no signals.
C16_SerializedSignalsScoreTheSame ==
    op = "score_serialized" =>
        /\ "str" \in DOMAIN property_data.distress_signals
        /\ result.score = prev.score
        /\ result.tier = prev.tier
        /\ result.factors = prev.factors
        /\ property_data.distress_signals = PyStr(<<>>) =>
              PointsIn(result.factors, "motivation")
                  = PointsIn(calculate_ai_priority_score(
                                 [k \in DOMAIN property_data \ {"distress_signals"}
                                     |-> property_data[k]], now).factors,
                             "motivation")

\* C16 witness: a record whose five tags were joined into one string and split again,
\* with the tag rules and the 5+ signal rule firing on the string.
C16_Witness ==
    /\ op = "score_serialized"
    /\ property_data.distress_signals =
           PyStr(Join(<<"Pre-Foreclosure", "Tax Lien", "Absentee Owner",
                       "Probate/Estate", "Tired Landlord">>, ","))
    /\ PointsIn(result.factors, "motivation") >= 12 + 10 + 6 + 12 + 8 + 8
    /\ result.factors = prev.factors

SignalsOf(p) == SignalList(Get(p, "distress_signals", PyList(<<>>)))

\* n points if the record carries the tag
TagPoints(p, tag, n) == IF In(tag, SignalsOf(p)) THEN n ELSE 0

\* the number of (non-empty) signals of the record
SignalCount(p) == Len(SelectSeq(SignalsOf(p), LAMBDA t : t # ""))

\* the motivation points of the documented table
DocumentedMotivation(p) ==
    TagPoints(p, "Foreclosure", 15) + TagPoints(p, "Pre-Foreclosure", 12)
    + TagPoints(p, "Probate/Estate", 12) + TagPoints(p, "Tax Lien", 10)
    + TagPoints(p, "Divorce", 10) + TagPoints(p, "Vacant", 8)
    + TagPoints(p, "Tired Landlord", 8) + TagPoints(p, "Absentee Owner", 6)
    + (IF Get(p, "ownership_years", 5) >= 15 THEN 5 ELSE 0)
    + (IF Get(p, "equity_percent", 0) >= 70 THEN 6 ELSE 0)
    + (IF Get(p, "equity_percent", 0) >= 95 THEN 5 ELSE 0)
    + (IF SignalCount(p) >= 5 THEN 8 ELSE IF SignalCount(p) >= 3 THEN 5 ELSE 0)

\* C18 (as claimed): the motivation points of every record are the sum of the rules of
\* the documented table that fire (eight tags, ownership >= 15, equity >= 70, equity >=
\* 95, signal count); no other tag or attribute value contributes.
C18_MotivationIsDocumentedTable ==
    op = "score" =>
        PointsIn(result.factors, "motivation") = DocumentedMotivation(property_data)

\* C18 (amended): the motivation points are the sum of the documented table and of two
\* more rules: the tag Code Violations +7 and equity from 50 % to under 70 % +4; the
\* tags Auction and High Equity and every other value contribute only to the count.
C18_MotivationIsFullTable ==
    op = "score" =>
        PointsIn(result.factors, "motivation")
            = DocumentedMotivation(property_data)
              + TagPoints(property_data, "Code Violations", 7)
              + (IF /\ Get(property_data, "equity_percent", 0) >= 50
                    /\ Get(property_data, "equity_percent", 0) < 70
                 THEN 4 ELSE 0)

\* C18 witness: a record with Code Violations, a second tag of the documented table
\* and equity between 50 % and 70 %, whose points exceed the documented table by 11.
C18_Witness ==
    /\ op = "score"
    /\ In("Code Violations", SignalsOf(property_data))
    /\ In("Foreclosure", SignalsOf(property_data))
    /\ In("Tax Lien", SignalsOf(property_data))
    /\ Get(property_data, "equity_percent", 0) = 69
    /\ PointsIn(result.factors, "motivation")
           = DocumentedMotivation(property_data) + 7 + 4

\* the factors with one of the given names
FactorsNamed(factors, names) == SelectSeq(factors, LAMBDA f : f.name \in names)

\* C19: a record with 5 or more signals receives the +8 signal-count bonus and not the
\* +5, one with 3 or 4 signals the +5, one with fewer than 3 neither; at most one
\* signal-count factor appears in the factors.
C19_SignalCountExclusive ==
    op = "score" =>
        LET n == SignalCount(property_data)
            five == FactorsNamed(result.factors, {"5+ Distress Signals"})
            three == FactorsNamed(result.factors, {"Multiple Signals"})
        IN  /\ Len(five) + Len(three) <= 1
            /\ n >= 5 => (Len(five) = 1 /\ three = <<>> /\ five[1].points = 8)
            /\ (n >= 3 /\ n < 5) => (Len(three) = 1 /\ five = <<>> /\ three[1].points = 5)
            /\ n < 3 => (five = <<>> /\ three = <<>>)
            /\ PointsIn(result.factors, "motivation")
                   - PointsIn(SelectSeq(result.factors,
                                        LAMBDA f : f.name \notin {"5+ Distress Signals",
                                                                  "Multiple Signals"}),
                              "motivation")
                 = (IF n >= 5 THEN 8 ELSE IF n >= 3 THEN 5 ELSE 0)

\* C19 witness: a record with five signals that received the +8 and no +5.
C19_Witness ==
    /\ op = "score"
    /\ SignalCount(property_data) = 5
    /\ Len(FactorsNamed(result.factors, {"5+ Distress Signals"})) = 1
    /\ FactorsNamed(result.factors, {"Multiple Signals"}) = <<>>

\* the points of the factors the equity rules of lines 597-608 append
EquityPoints(factors) ==
    SumPoints(FactorsNamed(factors, {"High Equity (70%+)", "Good Equity (50%+)",
                                     "Free & Clear"}))

\* C20 (as claimed): equity >= 95 % fires the high-equity (+6) and the free-and-clear
\* (+5) rule for 11 points, 70 % <= equity < 95 % only the +6 rule, and equity below
\* 70 % contributes no equity points.
C20_EquityBelow70IsNothing ==
    op = "score" =>
        LET equity_percent == Get(property_data, "equity_percent", 0)
        IN  EquityPoints(result.factors)
              = (IF equity_percent >= 95 THEN 11
                 ELSE IF equity_percent >= 70 THEN 6 ELSE 0)

\* C20 (amended): equity >= 95 % gives 6 + 5 = 11 points (both rules), 70 % <= equity
\* < 95 % gives 6, 50 % <= equity < 70 % gives 4 (Good Equity), and equity below 50 %
\* gives none.
C20_EquityAdditive ==
    op = "score" =>
        LET equity_percent == Get(property_data, "equity_percent", 0)
            high == FactorsNamed(result.factors, {"High Equity (70%+)"})
            free == FactorsNamed(result.factors, {"Free & Clear"})
        IN  /\ EquityPoints(result.factors)
                  = (IF equity_percent >= 95 THEN 11
                     ELSE IF equity_percent >= 70 THEN 6
                     ELSE IF equity_percent >= 50 THEN 4 ELSE 0)
            /\ equity_percent >= 95 => (Len(high) = 1 /\ Len(free) = 1)
            /\ (equity_percent >= 70 /\ equity_percent < 95) =>
                  (Len(high) = 1 /\ free = <<>>)
            /\ equity_percent < 70 => (high = <<>> /\ free = <<>>)

\* C20 witness: a record with 95 % equity on which both rules fired, for 11 points.
C20_Witness ==
    /\ op = "score"
    /\ Get(property_data, "equity_percent", 0) = 95
    /\ EquityPoints(result.factors) = 11
    /\ Len(FactorsNamed(result.factors, {"High Equity (70%+)", "Free & Clear"})) = 2

(***************************************************************************)
(* The repair estimate over every construction year around its limits.     *)
(***************************************************************************)
\* the years built of the repair specification: the sentinel years and every year from
\* RepairSpan years before the clock to a few years after it
RepairSpan == 56

RepairInputs ==
    { yb @@ sq :
        yb \in Choices("year_built",
                       {0, 1800, 1801} \cup ((2026 - RepairSpan)..2030)),
        sq \in Choices("sqft", {0, 1000, 2400}) }

InitRepair == InitWith(RepairInputs)

NextRepair == Score

\* the scoring engine over records of every age
SpecRepair == InitRepair /\ [][NextRepair]_vars

\* the four insights of lines 492-501
RepairInsights ==
    { "Older home - budget for major systems (roof, HVAC, plumbing)",
      "Medium-age home - likely needs kitchen/bath updates",
      "Newer construction - mostly cosmetic updates",
      "Very new - minimal repairs expected" }

\* C21: with age = clock year - year built (50 when the year built is <= 1800), the
\* repair cost per square foot is 65 if age > 50, 45 if 30 < age <= 50, 30 if
\* 15 < age <= 30, else 20; estimated_repairs is that cost times sqft, sqft defaulting
\* to 1500 and the year built to 1970; exactly one repair insight is produced per call,
\* and the sentinel year always selects the 45 bracket.
C21_RepairEstimate ==
    op = "score" =>
        LET year == Get(property_data, "year_built", 1970)
            area == Get(property_data, "sqft", 1500)
            age == IF year <= 1800 THEN 50 ELSE now.year - year
            cost == IF age > 50 THEN 65
                    ELSE IF 30 < age /\ age <= 50 THEN 45
                    ELSE IF 15 < age /\ age <= 30 THEN 30
                    ELSE 20
        IN  /\ result.financials.estimated_repairs = cost * area
            /\ Len(SelectSeq(result.ai_insights, LAMBDA i : i \in RepairInsights)) = 1
            /\ year <= 1800 =>
                  /\ result.financials.estimated_repairs = 45 * area
                  /\ In("Medium-age home - likely needs kitchen/bath updates",
                        result.ai_insights)

\* C21 witness: a record whose year built is the sentinel 0 has been scored and its
\* 1000 square feet are estimated at 45 a foot.
C21_Witness ==
    /\ op = "score"
    /\ "year_built" \in DOMAIN property_data
    /\ property_data.year_built = 0
    /\ Get(property_data, "sqft", 1500) = 1000
    /\ result.financials.estimated_repairs = 45000

\* the names of the gap factors (lines 518-532) and of the ROI factors (lines 537-546)
GapFactorNames ==
    { "Excellent Price Gap (15%+)", "Great Price Gap (10%+)", "Good Price Gap (5%+)",
      "At Max Offer", "Negotiable" }

RoiFactorNames ==
    { "Excellent ROI (30%+)", "Strong ROI (20%+)", "Good ROI (15%+)",
      "Acceptable ROI (10%+)" }

\* C22: the profit subtotal is the first matching gap-percent bucket (>= 15 -> 25,
\* >= 10 -> 20, >= 5 -> 15, >= 0 -> 10, >= -10 -> 5, else 0) plus the first matching
\* ROI bucket (>= 30 -> 15, >= 20 -> 12, >= 15 -> 8, >= 10 -> 5, else 0); at most one
\* gap factor and one ROI factor fire per call, and the subtotal lies in 0..40.
C22_ProfitSubtotal ==
    op = "score" =>
        LET g == result.financials.gap_percent
            r == result.financials.roi
            gap_points == IF g.num >= 15 * g.den THEN 25
                          ELSE IF g.num >= 10 * g.den THEN 20
                          ELSE IF g.num >= 5 * g.den THEN 15
                          ELSE IF g.num >= 0 THEN 10
                          ELSE IF g.num >= (-10) * g.den THEN 5
                          ELSE 0
            roi_points == IF r.num >= 30 * r.den THEN 15
                          ELSE IF r.num >= 20 * r.den THEN 12
                          ELSE IF r.num >= 15 * r.den THEN 8
                          ELSE IF r.num >= 10 * r.den THEN 5
                          ELSE 0
            profit == FactorsIn(result.factors, "profit")
        IN  /\ SumPoints(profit) = gap_points + roi_points
            /\ SumPoints(FactorsNamed(profit, GapFactorNames)) = gap_points
            /\ SumPoints(FactorsNamed(profit, RoiFactorNames)) = roi_points
            /\ Len(FactorsNamed(profit, GapFactorNames)) <= 1
            /\ Len(FactorsNamed(profit, RoiFactorNames)) <= 1
            /\ Len(profit) <= 2
            /\ SumPoints(profit) \in 0..40

\* C22 witness: a scored record earns the top gap bucket and the top ROI bucket, 40
\* profit points from two factors.
C22_Witness ==
    /\ op = "score"
    /\ FracGe(result.financials.roi, 30)
    /\ FracGe(result.financials.gap_percent, 15)
    /\ Len(FactorsIn(result.factors, "profit")) = 2
    /\ PointsIn(result.factors, "profit") = 40

\* C23: the urgency subtotal (days on market >= 90 -> +8, 60..89 -> +5; price
\* reductions >= 2 -> +8, exactly 1 -> +5; clock month in {11, 12, 1, 2} -> +3) lies in
\* 0..15 for every record and every month.
C23_UrgencyInRange ==
    op = "score" => PointsIn(result.factors, "urgency") \in 0..15

(***************************************************************************)
(* The recommendation over records whose score and ROI vary independently. *)
(***************************************************************************)
\* records of the verdict specification: the price and the repairs move the ROI across
\* its limits, the signals, equity, listing age and phone move the score across the tiers
VerdictInputs ==
    { lp @@ av @@ sq @@ ds @@ eq @@ dm @@ ph :
        lp \in Choices("list_price", {k * PriceStep : k \in 0..MaxPriceSteps}),
        av \in Choices("arv", {100000}),
        sq \in Choices("sqft", {0, 200}),
        ds \in ScoreSignalChoices,
        eq \in Choices("equity_percent", {95}),
        dm \in Choices("days_on_market", {90}),
        ph \in Choices("owner_phone", {"(313) 555-0142"}) }

InitVerdict == InitWith(VerdictInputs)

NextVerdict == Score

\* the scoring engine over records of every tier at every ROI
SpecVerdict == InitVerdict /\ [][NextVerdict]_vars

\* C24: the recommendation is STRONG BUY exactly when score >= 75 and roi >= 20, GOOD
\* OPPORTUNITY only if score >= 55 and roi >= 15, PASS exactly when score < 35, which is
\* exactly when the tier is MONITOR, and NEEDS WORK for every other record with
\* score >= 35 (HOT records with a low ROI among them).
C24_RecommendationFollowsScoreAndRoi ==
    op = "score" =>
        LET strong == result.score >= 75 /\ FracGe(result.financials.roi, 20)
            good == result.score >= 55 /\ FracGe(result.financials.roi, 15)
            verdict == result.ai_recommendation
        IN  /\ verdict \in { "STRONG BUY - All signals align for profit",
                              "GOOD OPPORTUNITY - Worth pursuing",
                              "NEEDS WORK - Negotiate hard or wait for price drop",
                              "PASS - Numbers don't work at current price" }
            /\ (verdict = "STRONG BUY - All signals align for profit") <=> strong
            /\ (verdict = "GOOD OPPORTUNITY - Worth pursuing") => good
            /\ (verdict = "PASS - Numbers don't work at current price")
                  <=> result.score < 35
            /\ (verdict = "PASS - Numbers don't work at current price")
                  <=> result.tier = "MONITOR"
            /\ (result.score >= 35 /\ ~strong /\ ~good) =>
                  verdict = "NEEDS WORK - Negotiate hard or wait for price drop"

\* C24 witness: a HOT record whose ROI is below 15 % has been scored and its
\* recommendation is NEEDS WORK.
C24_Witness ==
    /\ op = "score"
    /\ result.tier = "HOT"
    /\ result.financials.total_investment > 0
    /\ ~FracGe(result.financials.roi, 15)
    /\ result.ai_recommendation = "NEEDS WORK - Negotiate hard or wait for price drop"

(***************************************************************************)
(* Tags without points: a record is scored, a tag is added, and the record *)
(* is scored again.                                                        *)
(***************************************************************************)
\* tags of DISTRESS_SIGNALS (line 93) that no block of lines 549-591 names, and a
\* string that is no tag at all
UnscoredTags == {"Auction", "High Equity", "Fire Damage"}

TagInputs ==
    { ds @@ ow :
        ds \in Choices("distress_signals", {PyList(l) : l \in SignalLists}),
        ow \in Choices("ownership_years", {15}) }

\* the caller appends to the record's list a tag without points, or a tag the list
\* already holds, and scores the record again at the same clock
AddTag ==
    /\ op = "score"
    /\ op' = "add_tag"
    /\ LET signals == SignalList(Get(property_data, "distress_signals", PyList(<<>>)))
       IN  \E tag \in UnscoredTags \cup {signals[i] : i \in DOMAIN signals} :
              property_data' =
                  Field("distress_signals", PyList(Append(signals, tag)))
                  @@ property_data
    /\ result' = calculate_ai_priority_score(property_data', now)
    /\ prev' = result
    /\ UNCHANGED <<city, now, cities, deal, db, session_state>>

InitTags == InitWith(TagInputs)

NextTags == Score \/ AddTag

\* the scoring engine over records to which a tag without points is added
SpecTags == InitTags /\ [][NextTags]_vars

\* the signal-count bonus of lines 610-617 for n signals
CountBonus(n) == IF n >= 5 THEN 8 ELSE IF n >= 3 THEN 5 ELSE 0

\* the names of the two signal-count factors (lines 613, 617)
CountFactorNames == {"5+ Distress Signals", "Multiple Signals"}

\* C30 (as claimed): adding to a record a tag that has no entry in the points table,
\* or a tag its list already holds, changes neither the motivation points nor the
\* signal-count bonus, so the score stays the same.
C30_UnscoredTagKeepsScore ==
    op = "add_tag" =>
        /\ PointsIn(result.factors, "motivation") = PointsIn(prev.factors, "motivation")
        /\ result.score = prev.score

\* C30 (amended): such a tag earns no tag points (the factors other than the
\* signal-count factor stay the same) but it is counted by the signal-count bonus like
\* every non-empty string of the list: with n signals before, the points change by
\* CountBonus(n + 1) - CountBonus(n), which is +5 from 2 to 3 signals, +3 from 4 to 5
\* and 0 otherwise, and the score is the new sum clamped at 100.
C30_UnscoredTagCountsOnly ==
    op = "add_tag" =>
        LET n == Len(property_data.distress_signals.list) - 1
            others(factors) ==
                SelectSeq(factors, LAMBDA f : f.name \notin CountFactorNames)
        IN  /\ others(result.factors) = others(prev.factors)
            /\ SumPoints(FactorsNamed(result.factors, CountFactorNames))
                  = CountBonus(n + 1)
            /\ SumPoints(FactorsNamed(prev.factors, CountFactorNames)) = CountBonus(n)
            /\ SumPoints(result.factors)
                  = SumPoints(prev.factors) + CountBonus(n + 1) - CountBonus(n)
            /\ result.score = Clamp(SumPoints(result.factors))

\* C30 witness: "Auction" has been added to a record with two signals and the score
\* has gone up by the 5 points of the signal-count bonus.
C30_Witness ==
    /\ op = "add_tag"
    /\ Len(property_data.distress_signals.list) = 3
    /\ property_data.distress_signals.list[3] = "Auction"
    /\ ~In("Auction", SubSeq(property_data.distress_signals.list, 1, 2))
    /\ result.score = prev.score + 5

(***************************************************************************)
(* Saving, re-reading and re-staging properties (lines 816-900)            *)
(***************************************************************************)

\* line 821: the id save_property makes from the clock when the dict has none
GeneratedId == "prop_20260105093000"

\* the optional scoring fields of a saved dict: all given, one omitted, all omitted
StoreOptionalFields ==
    LET sq == Field("sqft", 1000)
        yb == Field("year_built", 1990)
        ow == Field("ownership_years", 12)
    IN  {sq @@ yb @@ ow, yb @@ ow, sq @@ ow, sq @@ yb, EmptyDict}

\* the dicts handed to save_property: with or without an id, one of two addresses, the
\* stage missing or 'New Lead' as in the Save Lead handler (line 1714)
StoreInputs ==
    {[list_price |-> 60000, arv |-> 100000] @@ i @@ a @@ o @@ st :
        i \in Choices("id", {"x1"}),
        a \in {Field("address", "12 Elm St"), Field("address", "14 Elm St")},
        o \in StoreOptionalFields,
        st \in Choices("stage", {"New Lead"})}

InitStore == InitWith({EmptyDict})

\* save_property(p, calculate_ai_priority_score(p)), as at lines 429-432 and 1717-1718
SaveProperty ==
    \E p \in StoreInputs :
        \E priority \in {calculate_ai_priority_score(p, now)} :
            /\ op' = "save_property"
            /\ property_data' = RecordAfterScore(p)
            /\ result' = priority
            /\ db' = [db EXCEPT !.properties =
                          save_property(@, RecordAfterScore(p), priority, GeneratedId)]
            /\ UNCHANGED <<city, now, prev, cities, deal, session_state>>

\* update_property_stage(prop_id, new_stage), as at line 1918, for a stored id or not
UpdatePropertyStage ==
    \E prop_id \in {"x1", "x9", GeneratedId}, new_stage \in {"Contacted", "Under Contract"} :
        /\ op' = "update_property_stage"
        /\ property_data' = Field("id", prop_id)
        /\ result' = NoResult
        /\ db' = [db EXCEPT !.properties = update_property_stage(@, prop_id, new_stage)]
        /\ UNCHANGED <<city, now, prev, cities, deal, session_state>>

\* lines 1348 and 1362: the row is read back and scored again
Rescore ==
    \E prop_id \in DOMAIN db.properties :
        LET prop_data == get_property_by_id(db.properties, prop_id)
        IN  /\ op' = "rescore"
            /\ property_data' = RecordAfterScore(prop_data)
            /\ result' = calculate_ai_priority_score(prop_data, now)
            /\ UNCHANGED <<city, now, prev, cities, deal, db, session_state>>

NextStore == SaveProperty \/ UpdatePropertyStage \/ Rescore

SpecStore == InitStore /\ [][NextStore]_vars

\* C27: re-scoring the row read back by get_property_by_id, at the same clock, returns
\* the score and the tier stored in the row's priority_score and priority_tier.
C27_StoredScoreReproducible ==
    op = "rescore" =>
        /\ result.score = property_data.priority_score
        /\ result.tier = property_data.priority_tier

\* C29: a save leaves one row under the saved id and touches no other row; the row has
\* the attributes, score and tier of this save; and if the id was already stored, the
\* row keeps the stage it had.
C29_UpsertKeepsStage ==
    [][op' = "save_property" =>
          LET prop_id == Get(property_data', "id", GeneratedId)
              row == db'.properties[prop_id]
          IN  /\ DOMAIN db'.properties = DOMAIN db.properties \cup {prop_id}
              /\ \A x \in DOMAIN db.properties \ {prop_id} :
                     db'.properties[x] = db.properties[x]
              /\ row.id = prop_id
              /\ row.address = property_data'.address
              /\ row.list_price = property_data'.list_price
              /\ row.priority_score = result'.score
              /\ row.priority_tier = result'.tier
              /\ prop_id \in DOMAIN db.properties =>
                     row.stage = db.properties[prop_id].stage]_vars

(***************************************************************************)
(* The runs of the app (lines 1286-2205)                                   *)
(***************************************************************************)

\* the outcomes of the generator's random draws that are told apart
MaxMockDraws == 2

\* the notes and follow-ups that are added, counted together
MaxNotes == 2

\* lines 1696-1715: save_data of an API result without id, at index 0, with no field
\* but its address, city and value
ApiSaveData ==
    [id |-> "api_0_093000", address |-> "15 Elm St", city |-> "Detroit", beds |-> 3,
     baths |-> 4, sqft |-> 1500, year_built |-> 1980, list_price |-> 100000,
     arv |-> 120000, equity_percent |-> 50, distress_signals |-> PyList(<<>>),
     stage |-> "New Lead"]

\* the ids whose View Details button is clicked: the first demo property, the saved lead
SelectableIds == {MockId(1), ApiSaveData.id}

\* the steps that end with st.rerun()
RerunOps ==
    {"regenerate", "clear_all", "view_details", "close_details", "add_note", "save_lead"}

\* lines 1347-1350: the row of the detail view, or None when no view is shown
DetailView(d, ss) ==
    IF ss.selected_property # None
    THEN get_property_by_id(d.properties, ss.selected_property) ELSE NoRow

\* the dict with the key k set to v
SetKey(d, k, v) == Field(k, v) @@ d

InitApp == InitWith({EmptyDict})

\* a run of the script with no button clicked: the first of a session, or the one
\* st.rerun() starts
RunMain ==
    /\ op \in {"none"} \cup RerunOps
    /\ \E g \in 1..MaxMockDraws :
          \E run \in {MainPrologue(db, session_state, g, now)} :
              /\ db' = run.db
              /\ session_state' = run.session_state
              /\ result' = [called |-> run.called, returned |-> run.returned]
    /\ op' = "main"
    /\ UNCHANGED <<property_data, city, now, prev, cities, deal>>

\* lines 2184-2192
Regenerate ==
    /\ op = "main"
    /\ \E g \in 1..MaxMockDraws :
          \E run \in {MainPrologue(db, session_state, g, now)} :
              /\ db' = [run.db EXCEPT !.properties = EmptyDict, !.alerts = <<>>]
              /\ session_state' = SetKey(run.session_state, "mock_loaded", FALSE)
    /\ op' = "regenerate"
    /\ result' = NoResult
    /\ UNCHANGED <<property_data, city, now, prev, cities, deal>>

\* lines 2195-2205
ClearAll ==
    /\ op = "main"
    /\ \E g \in 1..MaxMockDraws :
          \E run \in {MainPrologue(db, session_state, g, now)} :
              /\ db' = EmptyDb
              /\ session_state' = run.session_state
    /\ op' = "clear_all"
    /\ result' = NoResult
    /\ UNCHANGED <<property_data, city, now, prev, cities, deal>>

\* lines 1571-1573 (and 1804, 1836, 1853): View Details of a listed property
ViewDetails ==
    /\ op = "main"
    /\ \E g \in 1..MaxMockDraws :
          \E run \in {MainPrologue(db, session_state, g, now)} :
              \E prop_id \in DOMAIN run.db.properties \cap SelectableIds :
                  /\ db' = run.db
                  /\ session_state' =
                         SetKey(run.session_state, "selected_property", prop_id)
    /\ op' = "view_details"
    /\ result' = NoResult
    /\ UNCHANGED <<property_data, city, now, prev, cities, deal>>

\* lines 1352-1354
CloseDetails ==
    /\ op = "main"
    /\ \E g \in 1..MaxMockDraws :
          \E run \in {MainPrologue(db, session_state, g, now)} :
              /\ DetailView(run.db, run.session_state) # NoRow
              /\ db' = run.db
              /\ session_state' = SetKey(run.session_state, "selected_property", None)
    /\ op' = "close_details"
    /\ result' = NoResult
    /\ UNCHANGED <<property_data, city, now, prev, cities, deal>>

\* lines 1481-1485: the user notes the address the header of the view shows (line 1359)
AddNote ==
    /\ op = "main"
    /\ Len(db.notes) + Len(db.followups) < MaxNotes
    /\ \E g \in 1..MaxMockDraws :
          \E run \in {MainPrologue(db, session_state, g, now)} :
          \E prop_data \in {DetailView(run.db, run.session_state)} :
              /\ prop_data # NoRow
              /\ db' = [run.db EXCEPT !.notes =
                            add_note(@, run.session_state.selected_property,
                                     prop_data.address)]
              /\ session_state' = run.session_state
    /\ op' = "add_note"
    /\ result' = NoResult
    /\ UNCHANGED <<property_data, city, now, prev, cities, deal>>

\* lines 1466-1468: no rerun, the run goes on to draw the rest of the page
AddFollowup ==
    /\ op = "main"
    /\ Len(db.notes) + Len(db.followups) < MaxNotes
    /\ \E g \in 1..MaxMockDraws :
          \E run \in {MainPrologue(db, session_state, g, now)} :
              /\ DetailView(run.db, run.session_state) # NoRow
              /\ db' = [run.db EXCEPT !.followups =
                            add_followup(@, run.session_state.selected_property,
                                         "Call", "")]
              /\ session_state' = run.session_state
    /\ op' = "main"
    /\ result' = NoResult
    /\ UNCHANGED <<property_data, city, now, prev, cities, deal>>

\* lines 1694-1720
SaveLead ==
    /\ op = "main"
    /\ \E g \in 1..MaxMockDraws :
          \E run \in {MainPrologue(db, session_state, g, now)} :
          \E priority \in {calculate_ai_priority_score(ApiSaveData, now)} :
              /\ db' = [run.db EXCEPT !.properties =
                            save_property(@, ApiSaveData, priority, GeneratedId)]
              /\ session_state' = run.session_state
    /\ op' = "save_lead"
    /\ result' = NoResult
    /\ UNCHANGED <<property_data, city, now, prev, cities, deal>>

\* the page is opened in a new browser session: st.session_state starts empty, the
\* database file is the same
NewSession ==
    /\ op = "main"
    /\ op' = "none"
    /\ session_state' = EmptyDict
    /\ result' = NoResult
    /\ UNCHANGED <<property_data, city, now, prev, cities, deal, db>>

NextApp ==
    \/ RunMain
    \/ Regenerate
    \/ ClearAll
    \/ ViewDetails
    \/ CloseDetails
    \/ AddNote
    \/ AddFollowup
    \/ SaveLead
    \/ NewSession

SpecApp == InitApp /\ [][NextApp]_vars

\* C25: the run of main that follows Regenerate Demo Data calls load_mock_data, and
\* after it the properties table holds the MockCount demo properties again.
C25_RegenerateReloads ==
    [][(op = "regenerate" /\ op' = "main") =>
          /\ result'.called
          /\ Cardinality(DOMAIN db'.properties) = MockCount]_vars

\* C26: a run of main that calls load_mock_data on an empty properties table gets True
\* and leaves the MockCount demo properties, each stored with the score and tier of its
\* row, and the demo alerts, with notes and follow-ups as they were; a run that calls it
\* on a table with a row gets False, and that run, like one that does not call it,
\* changes no table.  The alerts table never holds more than the demo alerts.
C26_LoadsOnlyIntoEmpty ==
    [][/\ (op # "main" /\ op' = "main") =>
             IF result'.called /\ Cardinality(DOMAIN db.properties) = 0
             THEN /\ result'.returned
                  /\ session_state'.mock_loaded = TRUE
                  /\ Cardinality(DOMAIN db'.properties) = MockCount
                  /\ \A x \in DOMAIN db'.properties :
                        \E scored \in {calculate_ai_priority_score(db'.properties[x], now)} :
                            /\ db'.properties[x].priority_score = scored.score
                            /\ db'.properties[x].priority_tier = scored.tier
                  /\ db'.alerts = db.alerts \o MockAlerts
                  /\ db'.notes = db.notes
                  /\ db'.followups = db.followups
             ELSE /\ ~result'.returned
                  /\ db' = db
       /\ Len(db'.alerts) <= Len(MockAlerts)]_vars

\* C26: a session opened on a database that holds the demo data has run main, which
\* called load_mock_data and got False
C26_Witness ==
    /\ op = "main"
    /\ "called" \in DOMAIN result
    /\ result.called
    /\ ~result.returned
    /\ Cardinality(DOMAIN db.properties) >= MockCount
    /\ Len(db.alerts) = Len(MockAlerts)

\* C28: every note and every follow-up references a property of the properties table,
\* and a note is attached to the property it was written for (here: the one whose
\* address it quotes).
C28_NotesReferenceTheirProperty ==
    /\ \A i \in DOMAIN db.notes :
          /\ db.notes[i].property_id \in DOMAIN db.properties
          /\ db.notes[i].content = db.properties[db.notes[i].property_id].address
    /\ \A i \in DOMAIN db.followups :
          db.followups[i].property_id \in DOMAIN db.properties

====
